---- MODULE Spec2Model ----
(***************************************************************************)
(* Peer-wire codec of bitrain: the derive-based crate bitrain-core and the *)
(* hand-written crate build_torrent_core.  A behaviour is one Connection   *)
(* of one of the two crates reading frames a remote peer has written, plus *)
(* direct calls of the codec functions on bounded inputs.                  *)
(***************************************************************************)
EXTENDS Integers, Sequences, FiniteSets, TLC

VARIABLES crate, mode, stream, queue, alive, peer, last

vars == <<crate, mode, stream, queue, alive, peer, last>>

\* ------------------------------------------------------------------ bounds
MaxFrames == 2      \* frames the remote peer writes during one behaviour
MaxLen == 14        \* largest declared length of a hand-crafted frame
MaxData == 2        \* longest bits / data block of a sent message
MaxName == 21       \* longest protocol name a hand-crafted handshake declares
MaxFail == 6        \* last call on the writer that may fail (5 writes, then the flush)

\* --------------------------------------------------------------- byte level
Min(a, b) == IF a < b THEN a ELSE b

Take(s, n) == SubSeq(s, 1, Min(n, Len(s)))

Drop(s, n) == SubSeq(s, Min(n, Len(s)) + 1, Len(s))

\* WriteBytesExt::write_u32::<NetworkEndian>
write_u32(n) ==
    << (n \div 16777216) % 256, (n \div 65536) % 256, (n \div 256) % 256, n % 256 >>

\* ReadBytesExt::read_u32::<NetworkEndian> on four bytes
read_u32(b) == ((b[1] * 256 + b[2]) * 256 + b[3]) * 256 + b[4]

\* Option / io::Result outcomes
None == [tag |-> "None"]

Some(v) == [tag |-> "Some", val |-> v]

Err == [tag |-> "Err"]

Panic == [tag |-> "Panic"]

IsSome(r) == r.tag = "Some"

\* Option<usize>::None of the build_torrent_core length hint
NoHint == -1

\* ------------------------------------------------------------ message model
Units == {"Choke", "Unchoke", "Interested", "NotInterested"}

Kinds == Units \cup {"Have", "Bitfield", "Request", "Piece", "Cancel"}

\* Standalone::ID (bitrain-core), Id (build_torrent_core)
ID(kind) ==
    CASE kind = "Choke" -> 0
      [] kind = "Unchoke" -> 1
      [] kind = "Interested" -> 2
      [] kind = "NotInterested" -> 3
      [] kind = "Have" -> 4
      [] kind = "Bitfield" -> 5
      [] kind = "Request" -> 6
      [] kind = "Piece" -> 7
      [] kind = "Cancel" -> 8

\* Id::from(u8): the kind of an id byte, "Unknown" outside 0..8
IdFrom(b) == IF \E k \in Kinds : ID(k) = b THEN CHOOSE k \in Kinds : ID(k) = b ELSE "Unknown"

\* declared field types of each struct, in declaration order
Fields(kind) ==
    CASE kind \in Units -> <<>>
      [] kind = "Have" -> <<"u32">>
      [] kind = "Bitfield" -> <<"Vec">>
      [] kind = "Request" -> <<"u32", "u32", "u32">>
      [] kind = "Piece" -> <<"u32", "u32", "Vec">>
      [] kind = "Cancel" -> <<"u32", "u32", "u32">>

Msg(kind, f) == [kind |-> kind, f |-> f]

\* ------------------------------------------------- bitrain-core: Encode
\* Encode::size of one field
Field_size(ty, v) == IF ty = "u32" THEN 4 ELSE Len(v)

\* Encode::encode_to of one field
Field_encode_to(ty, v) == IF ty = "u32" THEN write_u32(v) ELSE v

RECURSIVE Struct_size(_, _)
\* derived size(): sum of the field sizes
Struct_size(tys, f) ==
    IF tys = <<>> THEN 0
    ELSE Field_size(Head(tys), Head(f)) + Struct_size(Tail(tys), Tail(f))

RECURSIVE Struct_encode_to(_, _)
\* derived encode_to(): the fields in declaration order
Struct_encode_to(tys, f) ==
    IF tys = <<>> THEN <<>>
    ELSE Field_encode_to(Head(tys), Head(f)) \o Struct_encode_to(Tail(tys), Tail(f))

\* Encode::encode
Encode_encode(m) == Struct_encode_to(Fields(m.kind), m.f)

\* impl Send for Container<&S>
Container_send_to(m) ==
    LET data_len == Struct_size(Fields(m.kind), m.f)
    IN  write_u32(data_len + 1) \o <<ID(m.kind)>> \o Struct_encode_to(Fields(m.kind), m.f)

\* derived Send for Message
Message_send_to(m) ==
    IF m.kind \in Units THEN write_u32(1) \o <<ID(m.kind)>>
    ELSE Container_send_to(m)

\* ------------------------------------------------- bitrain-core: Decode
\* utils::discard_bytes
discard_bytes(rd, count) == Drop(rd, count)

\* impl Decode for u8
u8_decode_from(hint, rd) ==
    IF hint < 1 THEN [res |-> None, hint |-> hint, rd |-> rd]
    ELSE IF Len(rd) < 1 THEN [res |-> Err, hint |-> hint, rd |-> <<>>]
    ELSE [res |-> Some(rd[1]), hint |-> hint, rd |-> Drop(rd, 1)]

\* impl_sr_for_primitive!: impl Decode for u32
u32_decode_from(hint, rd) ==
    IF hint < 4 THEN [res |-> None, hint |-> hint, rd |-> rd]
    ELSE IF Len(rd) < 4 THEN [res |-> Err, hint |-> hint - 4, rd |-> <<>>]
    ELSE [res |-> Some(read_u32(Take(rd, 4))), hint |-> hint - 4, rd |-> Drop(rd, 4)]

\* impl Decode for Vec<u8>
Vec_decode_from(hint, rd) ==
    IF Len(rd) < hint THEN [res |-> Err, hint |-> hint, rd |-> <<>>]
    ELSE [res |-> Some(Take(rd, hint)), hint |-> 0, rd |-> Drop(rd, hint)]

Field_decode_from(ty, hint, rd) ==
    IF ty = "u32" THEN u32_decode_from(hint, rd) ELSE Vec_decode_from(hint, rd)

RECURSIVE Struct_decode_from(_, _, _, _)
\* derived decode_from(): the fields in order, absent at the first absent field
Struct_decode_from(tys, hint, rd, acc) ==
    IF tys = <<>> THEN [res |-> Some(acc), hint |-> hint, rd |-> rd]
    ELSE LET r == Field_decode_from(Head(tys), hint, rd)
         IN  IF IsSome(r.res)
             THEN Struct_decode_from(Tail(tys), r.hint, r.rd, Append(acc, r.res.val))
             ELSE r

\* Decode::decode_from of the struct of a kind
decode_from(kind, hint, rd) ==
    LET r == Struct_decode_from(Fields(kind), hint, rd, <<>>)
    IN  IF IsSome(r.res) THEN [r EXCEPT !.res = Some(Msg(kind, r.res.val))] ELSE r

\* Decode::decode
Decode_decode(kind, bytes) == decode_from(kind, Len(bytes), bytes)

\* Decode::decode_or_discard_from
decode_or_discard_from(kind, hint, rd) ==
    LET r == decode_from(kind, hint, rd)
    IN  IF r.res = None THEN [r EXCEPT !.rd = discard_bytes(r.rd, r.hint)] ELSE r

\* impl Recv for Container<R>
Container_recv_from(kind, rd) ==
    IF Len(rd) < 4 THEN [res |-> Err, rd |-> <<>>]
    ELSE LET len == read_u32(Take(rd, 4))
             r1 == Drop(rd, 4)
         IN  IF len = 0 THEN [res |-> None, rd |-> r1]
             ELSE IF Len(r1) < 1 THEN [res |-> Err, rd |-> <<>>]
             ELSE IF r1[1] # ID(kind) THEN [res |-> None, rd |-> Drop(r1, 1)]
             ELSE LET r == decode_or_discard_from(kind, len - 1, Drop(r1, 1))
                  IN  [res |-> r.res, rd |-> r.rd]

\* Message_recv_from without the early return on a zero length: the id byte
\* is read behind a keep-alive as well
Message_recv_from_NoKeepAlive(rd) ==
    LET l == u32_decode_from(4, rd)
    IN  IF ~IsSome(l.res) THEN [res |-> l.res, rd |-> l.rd]
        ELSE LET i == u8_decode_from(1, l.rd)
             IN  IF ~IsSome(i.res) THEN [res |-> i.res, rd |-> i.rd]
                 ELSE LET kind == IdFrom(i.res.val)
                          len_hint == l.res.val - 1
                      IN  IF kind = "Unknown" \/ len_hint < 0 THEN [res |-> None, rd |-> i.rd]
                          ELSE IF kind \in Units
                               THEN [res |-> Some(Msg(kind, <<>>)), rd |-> i.rd]
                          ELSE LET r == decode_or_discard_from(kind, len_hint, i.rd)
                               IN  [res |-> r.res, rd |-> r.rd]

\* derived Recv for Message
Message_recv_from(rd) ==
    LET l == u32_decode_from(4, rd)
    IN  IF ~IsSome(l.res) THEN [res |-> l.res, rd |-> l.rd]
        ELSE IF l.res.val = 0 THEN [res |-> None, rd |-> l.rd]
        ELSE LET i == u8_decode_from(1, l.rd)
             IN  IF ~IsSome(i.res) THEN [res |-> i.res, rd |-> i.rd]
                 ELSE LET kind == IdFrom(i.res.val)
                          len_hint == l.res.val - 1
                      IN  IF kind = "Unknown" THEN [res |-> None, rd |-> i.rd]
                          ELSE IF kind \in Units
                               THEN [res |-> Some(Msg(kind, <<>>)), rd |-> i.rd]
                          ELSE LET r == decode_or_discard_from(kind, len_hint, i.rd)
                               IN  [res |-> r.res, rd |-> r.rd]

\* ------------------------------------------------ bitrain-core: Handshake
\* Handshake::BITTORRENT_PROTOCOL, "BitTorrent protocol".as_bytes()
BITTORRENT_PROTOCOL ==
    << 66, 105, 116, 84, 111, 114, 114, 101, 110, 116, 32,
       112, 114, 111, 116, 111, 99, 111, 108 >>

\* struct Handshake { reserved, info_hash, peer_id }
Handshake(reserved, info_hash, peer_id) ==
    [reserved |-> reserved, info_hash |-> info_hash, peer_id |-> peer_id]

\* impl Send for Handshake
Handshake_send_to(h) ==
    <<Len(BITTORRENT_PROTOCOL) % 256>> \o BITTORRENT_PROTOCOL
        \o h.reserved \o h.info_hash \o h.peer_id

\* impl Decode for [u8; D]
Array_decode_from(D, hint, rd) ==
    IF hint < D THEN [res |-> None, hint |-> hint, rd |-> rd]
    ELSE IF Len(rd) < D THEN [res |-> Err, hint |-> hint, rd |-> <<>>]
    ELSE [res |-> Some(Take(rd, D)), hint |-> hint - D, rd |-> Drop(rd, D)]

\* impl Decode for Box<[u8; D]>: Box<[u8]>::decode_from with a hint of D
BoxArray_decode_from(D, hint, rd) ==
    IF hint < D THEN [res |-> None, hint |-> hint, rd |-> rd]
    ELSE LET r == Vec_decode_from(D, rd)
         IN  IF IsSome(r.res) THEN [r EXCEPT !.hint = hint - D]
             ELSE [r EXCEPT !.hint = hint]

\* Decode::decode_or_discard_from around the outcome of a decode_from
or_discard(r) == IF r.res = None THEN [r EXCEPT !.rd = discard_bytes(r.rd, r.hint)] ELSE r

\* Handshake_recv_from comparing only the length of the protocol name
Handshake_recv_from_LenOnly(rd) ==
    CHOOSE out \in
      { IF ~IsSome(n.res) THEN [res |-> n.res, rd |-> n.rd]
        ELSE CHOOSE out_n \in
          { IF ~IsSome(p.res) THEN [res |-> p.res, rd |-> p.rd]
            ELSE IF Len(p.res.val) # Len(BITTORRENT_PROTOCOL) THEN [res |-> None, rd |-> p.rd]
            ELSE CHOOSE out_p \in
              { IF ~IsSome(a.res) THEN [res |-> a.res, rd |-> a.rd]
                ELSE CHOOSE out_a \in
                  { IF ~IsSome(b.res) THEN [res |-> b.res, rd |-> b.rd]
                    ELSE CHOOSE out_b \in
                      { IF ~IsSome(c.res) THEN [res |-> c.res, rd |-> c.rd]
                        ELSE [res |-> Some(Handshake(a.res.val, b.res.val, c.res.val)),
                              rd |-> c.rd]
                        : c \in {or_discard(BoxArray_decode_from(20, b.hint, b.rd))} } : TRUE
                    : b \in {or_discard(BoxArray_decode_from(20, a.hint, a.rd))} } : TRUE
                : a \in {or_discard(Array_decode_from(8, 48, p.rd))} } : TRUE
            : p \in {or_discard(Vec_decode_from(n.res.val, n.rd))} } : TRUE
        : n \in {or_discard(u8_decode_from(1, rd))} } : TRUE

\* impl Recv for Handshake
Handshake_recv_from(rd) ==
    CHOOSE out \in
      { IF ~IsSome(n.res) THEN [res |-> n.res, rd |-> n.rd]
        ELSE CHOOSE out_n \in
          { IF ~IsSome(p.res) THEN [res |-> p.res, rd |-> p.rd]
            ELSE IF p.res.val # BITTORRENT_PROTOCOL THEN [res |-> None, rd |-> p.rd]
            ELSE CHOOSE out_p \in
              { IF ~IsSome(a.res) THEN [res |-> a.res, rd |-> a.rd]
                ELSE CHOOSE out_a \in
                  { IF ~IsSome(b.res) THEN [res |-> b.res, rd |-> b.rd]
                    ELSE CHOOSE out_b \in
                      { IF ~IsSome(c.res) THEN [res |-> c.res, rd |-> c.rd]
                        ELSE [res |-> Some(Handshake(a.res.val, b.res.val, c.res.val)),
                              rd |-> c.rd]
                        : c \in {or_discard(BoxArray_decode_from(20, b.hint, b.rd))} } : TRUE
                    : b \in {or_discard(BoxArray_decode_from(20, a.hint, a.rd))} } : TRUE
                : a \in {or_discard(Array_decode_from(8, 48, p.rd))} } : TRUE
            : p \in {or_discard(Vec_decode_from(n.res.val, n.rd))} } : TRUE
        : n \in {or_discard(u8_decode_from(1, rd))} } : TRUE

\* impl Connection (bitrain-core): recv::<Message>(), recv::<Handshake>() and
\* recv::<Container<R>>()
Connection_recv(ty, rd) ==
    LET r == IF ty = "Message" THEN Message_recv_from(rd)
             ELSE IF ty = "Handshake" THEN Handshake_recv_from(rd)
             ELSE Container_recv_from(ty, rd)
    IN  [res |-> r.res, hint |-> NoHint, rd |-> r.rd]

\* ------------------------------------------- build_torrent_core: Send
\* Have::EXPECTED_LEN, Request::EXPECTED_LEN, Cancel::EXPECTED_LEN
EXPECTED_LEN(kind) == IF kind = "Have" THEN 4 + 1 ELSE 3 * 4 + 1

\* Piece::MIN_LEN
Piece_MIN_LEN == 2 * 4

\* Bitfield::MIN_LEN
Bitfield_MIN_LEN == 1

\* Send::size of each type
btc_size(m) ==
    CASE m.kind \in Units -> 1
      [] m.kind \in {"Have", "Request", "Cancel"} -> EXPECTED_LEN(m.kind)
      [] m.kind = "Bitfield" -> Len(m.f[1]) + 1
      [] m.kind = "Piece" -> Piece_MIN_LEN + Len(m.f[3])

\* Send::send_to of each type: the id byte, then the fields
btc_send_to(m) == <<ID(m.kind)>> \o Struct_encode_to(Fields(m.kind), m.f)

\* impl Send for SendContainer<S>, which is what Send for &Message calls
btc_SendContainer_send_to(m) ==
    IF btc_size(m) > 255 THEN [tag |-> "Panic", out |-> <<>>]
    ELSE [tag |-> "Ok", out |-> <<btc_size(m)>> \o btc_send_to(m)]

\* ------------------------------------------- build_torrent_core: Recv
\* check_length_exact!
check_length_exact(hint, len) == (IF hint = NoHint THEN len ELSE hint) = len

\* impl_message_without_payload!: Recv for Choke, Unchoke, Interested, NotInterested
btc_Unit_recv_from(kind, hint, rd) ==
    IF ~check_length_exact(hint, 1) THEN [res |-> None, hint |-> hint, rd |-> rd]
    ELSE IF Len(rd) < 1 THEN [res |-> Err, hint |-> hint, rd |-> <<>>]
    ELSE IF rd[1] = ID(kind)
         THEN [res |-> Some(Msg(kind, <<>>)), hint |-> 0, rd |-> Drop(rd, 1)]
         ELSE [res |-> None, hint |-> hint, rd |-> Drop(rd, 1)]

\* btc_Fixed_recv_from reporting the whole expected count on an id mismatch,
\* the id byte it has read included
btc_Fixed_recv_from_ResidualWithId(kind, hint, rd) ==
    LET exp == EXPECTED_LEN(kind)
        n == (exp - 1) \div 4
    IN  IF ~check_length_exact(hint, exp) THEN [res |-> None, hint |-> hint, rd |-> rd]
        ELSE IF Len(rd) < 1 THEN [res |-> Err, hint |-> hint, rd |-> <<>>]
        ELSE IF rd[1] # ID(kind) THEN [res |-> None, hint |-> exp, rd |-> Drop(rd, 1)]
        ELSE IF Len(rd) < exp THEN [res |-> Err, hint |-> hint, rd |-> <<>>]
        ELSE [res |-> Some(Msg(kind, [i \in 1..n |-> read_u32(SubSeq(rd, 4 * i - 2, 4 * i + 1))])),
              hint |-> 0, rd |-> Drop(rd, exp)]

\* impl Recv for Have, Request, Cancel
btc_Fixed_recv_from(kind, hint, rd) ==
    LET exp == EXPECTED_LEN(kind)
        n == (exp - 1) \div 4
    IN  IF ~check_length_exact(hint, exp) THEN [res |-> None, hint |-> hint, rd |-> rd]
        ELSE IF Len(rd) < 1 THEN [res |-> Err, hint |-> hint, rd |-> <<>>]
        ELSE IF rd[1] # ID(kind) THEN [res |-> None, hint |-> exp - 1, rd |-> Drop(rd, 1)]
        ELSE IF Len(rd) < exp THEN [res |-> Err, hint |-> hint, rd |-> <<>>]
        ELSE [res |-> Some(Msg(kind, [i \in 1..n |-> read_u32(SubSeq(rd, 4 * i - 2, 4 * i + 1))])),
              hint |-> 0, rd |-> Drop(rd, exp)]

\* impl Recv for Bitfield
btc_Bitfield_recv_from(hint, rd) ==
    IF hint = NoHint THEN [res |-> Panic, hint |-> hint, rd |-> rd]
    ELSE IF hint < Bitfield_MIN_LEN THEN [res |-> None, hint |-> hint, rd |-> rd]
    ELSE IF Len(rd) < 1 THEN [res |-> Err, hint |-> hint, rd |-> <<>>]
    ELSE IF rd[1] # ID("Bitfield") THEN [res |-> None, hint |-> hint, rd |-> Drop(rd, 1)]
    ELSE IF Len(rd) - 1 < hint THEN [res |-> Err, hint |-> hint, rd |-> <<>>]
    ELSE [res |-> Some(Msg("Bitfield", << SubSeq(rd, 2, 1 + hint) >>)),
          hint |-> 0, rd |-> Drop(rd, 1 + hint)]

\* impl Recv for Piece
btc_Piece_recv_from(hint, rd) ==
    IF hint = NoHint THEN [res |-> Panic, hint |-> hint, rd |-> rd]
    ELSE IF hint < Piece_MIN_LEN THEN [res |-> None, hint |-> hint, rd |-> rd]
    ELSE IF Len(rd) < 1 THEN [res |-> Err, hint |-> hint, rd |-> <<>>]
    ELSE IF rd[1] # ID("Piece") THEN [res |-> None, hint |-> hint - 1, rd |-> Drop(rd, 1)]
    ELSE IF Len(rd) < 1 + hint THEN [res |-> Err, hint |-> hint, rd |-> <<>>]
    ELSE [res |-> Some(Msg("Piece", << read_u32(SubSeq(rd, 2, 5)), read_u32(SubSeq(rd, 6, 9)),
                                       SubSeq(rd, 10, 1 + hint) >>)),
          hint |-> 0, rd |-> Drop(rd, 1 + hint)]

\* Recv::recv_from of the type of a kind
btc_recv_from(kind, hint, rd) ==
    CASE kind \in Units -> btc_Unit_recv_from(kind, hint, rd)
      [] kind \in {"Have", "Request", "Cancel"} -> btc_Fixed_recv_from(kind, hint, rd)
      [] kind = "Bitfield" -> btc_Bitfield_recv_from(hint, rd)
      [] kind = "Piece" -> btc_Piece_recv_from(hint, rd)

\* impl Recv for RecvContainer<R>
btc_RecvContainer_recv_from(kind, rd) ==
    IF Len(rd) < 4 THEN [res |-> Err, hint |-> NoHint, rd |-> <<>>]
    ELSE btc_recv_from(kind, read_u32(Take(rd, 4)), Drop(rd, 4))

\* impl Recv for Message: the id byte is read, then chained back in front of
\* the reader handed to the per-type receiver
btc_Message_recv_from(rd) ==
    IF Len(rd) < 4 THEN [res |-> Err, hint |-> NoHint, rd |-> <<>>]
    ELSE LET len == read_u32(Take(rd, 4))
             r1 == Drop(rd, 4)
         IN  IF len = 0 THEN [res |-> None, hint |-> 0, rd |-> r1]
             ELSE IF Len(r1) < 1 THEN [res |-> Err, hint |-> NoHint, rd |-> <<>>]
             ELSE LET kind == IdFrom(r1[1])
                      rest == Drop(r1, 1)
                  IN  IF kind = "Unknown" THEN [res |-> None, hint |-> len, rd |-> rest]
                      ELSE IF kind \in Units
                           THEN [res |-> Some(Msg(kind, <<>>)), hint |-> len, rd |-> rest]
                      ELSE LET r == btc_recv_from(kind, len, r1)
                           IN  [r EXCEPT !.rd = IF Len(r.rd) > Len(rest) THEN rest ELSE r.rd]

\* Connection::discard_unkown_message
discard_unkown_message(rd, residual_count) == Drop(rd, residual_count)

\* btc_Handshake_send_to writing the peer id in front of the info hash
btc_Handshake_send_to_PeerIdFirst(h) ==
    <<Len(BITTORRENT_PROTOCOL) % 256>> \o BITTORRENT_PROTOCOL
        \o h.reserved \o h.peer_id \o h.info_hash

\* impl Send for &Handshake
btc_Handshake_send_to(h) ==
    <<Len(BITTORRENT_PROTOCOL) % 256>> \o BITTORRENT_PROTOCOL
        \o h.reserved \o h.info_hash \o h.peer_id

\* impl Recv for Handshake (build_torrent_core); Handshake::new is Some for
\* the 20-byte vectors read here
btc_Handshake_recv_from(hint, rd) ==
    IF Len(rd) < 1 THEN [res |-> Err, hint |-> hint, rd |-> <<>>]
    ELSE LET protocol_name_len == rd[1]
             r1 == Drop(rd, 1)
         IN  IF Len(r1) < protocol_name_len THEN [res |-> Err, hint |-> hint, rd |-> <<>>]
             ELSE LET protocol == Take(r1, protocol_name_len)
                      r2 == Drop(r1, protocol_name_len)
                  IN  IF protocol # BITTORRENT_PROTOCOL
                      THEN [res |-> None, hint |-> NoHint, rd |-> r2]
                      ELSE IF Len(r2) < 8 + 20 + 20 THEN [res |-> Err, hint |-> hint, rd |-> <<>>]
                      ELSE [res |-> Some(Handshake(SubSeq(r2, 1, 8), SubSeq(r2, 9, 28),
                                                   SubSeq(r2, 29, 48))),
                            hint |-> 0, rd |-> Drop(r2, 48)]

\* impl Connection (build_torrent_core): recv::<Message>(), recv::<Handshake>(),
\* recv::<RecvContainer<R>>()
btc_Connection_recv(ty, rd) ==
    LET r == IF ty = "Message" THEN btc_Message_recv_from(rd)
             ELSE IF ty = "Handshake" THEN btc_Handshake_recv_from(NoHint, rd)
             ELSE btc_RecvContainer_recv_from(ty, rd)
    IN  IF r.res # None THEN r
        ELSE IF r.hint = NoHint THEN [r EXCEPT !.res = Panic]
        ELSE [r EXCEPT !.rd = discard_unkown_message(r.rd, r.hint)]

\* ------------------------------------------------- Connection::send
\* the calls a sender makes on its writer, in order: write calls with their
\* bytes, and flush calls
Write(bytes) == [op |-> "write", bytes |-> bytes]

Flush == [op |-> "flush"]

\* the write calls of Container<&S>::send_to and of the derived Message::send_to
Message_send_to_calls(m) ==
    IF m.kind \in Units THEN << Write(write_u32(1)), Write(<<ID(m.kind)>>) >>
    ELSE << Write(write_u32(Struct_size(Fields(m.kind), m.f) + 1)), Write(<<ID(m.kind)>>) >>
         \o [i \in 1..Len(m.f) |-> Write(Field_encode_to(Fields(m.kind)[i], m.f[i]))]

\* the write calls of Handshake::send_to (both crates)
Handshake_send_to_calls(h) ==
    << Write(<<Len(BITTORRENT_PROTOCOL) % 256>>), Write(BITTORRENT_PROTOCOL),
       Write(h.reserved), Write(h.info_hash), Write(h.peer_id) >>

\* the write calls of SendContainer<S>::send_to (build_torrent_core)
btc_SendContainer_send_to_calls(m) ==
    << Write(<<btc_size(m)>>), Write(<<ID(m.kind)>>) >>
    \o [i \in 1..Len(m.f) |-> Write(Field_encode_to(Fields(m.kind)[i], m.f[i]))]

\* the write calls of S::send_to for the value handed to Connection::send
send_to_calls(c, ty, v) ==
    IF ty = "Handshake" THEN Handshake_send_to_calls(v)
    ELSE IF c = "bitrain_core" THEN Message_send_to_calls(v)
    ELSE btc_SendContainer_send_to_calls(v)

\* send_to on a writer whose fail-th call returns an io::Error (`?` returns it
\* at once); fail = 0 or beyond the last call: no call fails
send_to(calls, fail) ==
    IF fail \in 1..Len(calls) THEN [res |-> Err, ops |-> SubSeq(calls, 1, fail - 1)]
    ELSE [res |-> Some(<<>>), ops |-> calls]

\* Connection_send flushing the stream in front of send_to as well
Connection_send_FlushFirst(c, ty, v, fail) ==
    LET calls == send_to_calls(c, ty, v)
        s == send_to(calls, fail)
    IN  IF c = "build_torrent_core" /\ ty # "Handshake" /\ btc_size(v) > 255
        THEN [res |-> Panic, ops |-> <<Flush>>]
        ELSE IF s.res = Err THEN [s EXCEPT !.ops = <<Flush>> \o @]
        ELSE [res |-> IF fail = Len(calls) + 1 THEN Err ELSE Some(<<>>),
              ops |-> <<Flush>> \o s.ops \o <<Flush>>]

\* Connection::send (both crates): message.send_to(&mut self.inner)?; self.inner.flush()
Connection_send(c, ty, v, fail) ==
    LET calls == send_to_calls(c, ty, v)
        s == send_to(calls, fail)
    IN  IF c = "build_torrent_core" /\ ty # "Handshake" /\ btc_size(v) > 255
        THEN [res |-> Panic, ops |-> <<>>]
        ELSE IF s.res = Err THEN s
        ELSE [res |-> IF fail = Len(calls) + 1 THEN Err ELSE Some(<<>>),
              ops |-> s.ops \o <<Flush>>]

\* ------------------------------------------- length field of a container
\* bits of BTInt = u32, scaled so that sizes beyond it fit the integers of
\* the model (usize is wider than BTInt there as here)
BTINT_BITS == 16

\* u32::MAX
BTINT_MAX == 2^BTINT_BITS - 1

\* the length field of Container<&S>::send_to (bitrain-core) and of
\* SendContainer<S>::send_to (build_torrent_core) for a payload whose size()
\* is `size`, or the panic in front of the first write: try_into().expect(..)
\* on a size that BTInt (u8 in build_torrent_core) does not hold, and
\* `data_len + 1`, which panics in a build with overflow checks and wraps in
\* a build without
Container_send_len(c, size, build) ==
    IF c = "bitrain_core"
    THEN (IF size > BTINT_MAX THEN [res |-> Panic, len |-> NoHint]
          ELSE IF size + 1 > BTINT_MAX /\ build = "debug" THEN [res |-> Panic, len |-> NoHint]
          ELSE [res |-> Some(<<>>), len |-> (size + 1) % (BTINT_MAX + 1)])
    ELSE (IF size > 255 THEN [res |-> Panic, len |-> NoHint]
          ELSE [res |-> Some(<<>>), len |-> size])

\* ------------------------------------------------------------ input sets
Crates == {"bitrain_core", "build_torrent_core"}

\* values of the u32 fields
U32s == {0, 258}

\* bytes of bits / data blocks
DataBytes == {1, 7}

Datas == UNION {[1..n -> DataBytes] : n \in 0..MaxData}

\* the values of the nine kinds the codec calls are applied to
Messages ==
    {Msg(k, <<>>) : k \in Units}
    \cup {Msg("Have", <<a>>) : a \in U32s}
    \cup {Msg("Bitfield", <<d>>) : d \in Datas}
    \cup {Msg(k, <<a, b, c>>) : k \in {"Request", "Cancel"}, a \in U32s, b \in U32s, c \in U32s}
    \cup {Msg("Piece", <<a, b, d>>) : a \in U32s, b \in U32s, d \in Datas}

\* the messages a conforming remote peer sends
PeerMsgs ==
    { Msg("Choke", <<>>), Msg("Have", <<258>>), Msg("Piece", <<258, 0, <<7>> >>) }

\* id bytes of hand-crafted frames: the nine kinds and two unknown ids
RawIds == 0..8 \cup {9, 100}

Nil == [tag |-> "Nil"]

\* the handshakes sent: reserved bytes all zero, with the extension bit
\* (Reserved::EXTENSION) or all different; hashes and ids zero or counting
Handshakes ==
    { Handshake(r, i, p) :
        r \in { [k \in 1..8 |-> 0], [k \in 1..8 |-> IF k = 6 THEN 16 ELSE 0], [k \in 1..8 |-> k] },
        i \in { [k \in 1..20 |-> 0], [k \in 1..20 |-> 20 + k] },
        p \in { [k \in 1..20 |-> 0], [k \in 1..20 |-> 40 + k] } }

\* a protocol name of n bytes: the first n bytes of "BitTorrent protocol"
\* continued by "!" bytes, or the same with a lower-case first letter
ProtocolName(n, exact) ==
    [k \in 1..n |-> IF k = 1 /\ ~exact THEN 98
                    ELSE IF k <= Len(BITTORRENT_PROTOCOL) THEN BITTORRENT_PROTOCOL[k]
                    ELSE 33]

\* the bytes a hand-crafted handshake puts on the stream: the length byte n,
\* a name of n bytes and 50 more bytes, cut off after total bytes
HandshakeInput(n, exact, total) ==
    Take(<<n>> \o ProtocolName(n, exact) \o [k \in 1..50 |-> k], total)

\* where a hand-crafted handshake is cut off: in front of the length byte, in
\* the name, behind the name, inside and behind the 48 bytes that follow
HandshakeCuts(n) == {0, 1, n, 1 + n, 1 + n + 47, 1 + n + 48, 1 + n + 50}

\* the hand-crafted handshakes: names of 0..MaxName bytes, right or altered
HandshakeInputs ==
    UNION { { HandshakeInput(n, exact, total) : exact \in BOOLEAN, total \in HandshakeCuts(n) } :
            n \in 0..MaxName }

\* a frame on the wire (BEP 3): declared length, id byte, payload
Frame(len, id, payload) == write_u32(len) \o <<id>> \o payload

\* the frame of a message as a conforming peer writes it
FrameOf(m) ==
    LET payload == Struct_encode_to(Fields(m.kind), m.f)
    IN  Frame(Len(payload) + 1, ID(m.kind), payload)

\* a hand-crafted frame holding exactly its declared len bytes; len 0 is a keep-alive
RawFrame(len, id) ==
    IF len = 0 THEN write_u32(0) ELSE Frame(len, id, [i \in 1..(len - 1) |-> i])

RECURSIVE Flatten(_)
Flatten(q) == IF q = <<>> THEN <<>> ELSE Head(q).bytes \o Flatten(Tail(q))

\* the reader stands at a frame boundary
Aligned == stream = Flatten(queue)

Rec(op, ty, arg, inp, hint0, r, aligned) ==
    [op |-> op, ty |-> ty, arg |-> arg, inp |-> inp, hint0 |-> hint0,
     res |-> r.res, hint |-> r.hint, rd |-> r.rd, aligned |-> aligned, prev |-> Nil,
     ops |-> <<>>]

\* ---------------------------------------------------------------- actions
Init ==
    /\ crate \in Crates
    /\ mode \in {"connection", "calls"}
    /\ stream = <<>>
    /\ queue = <<>>
    /\ alive = TRUE
    /\ peer = [frames |-> 0, crafted |-> FALSE]
    /\ last = Rec("init", Nil, Nil, <<>>, NoHint, [res |-> Nil, hint |-> NoHint, rd |-> <<>>], TRUE)

\* the remote peer writes the frame of a message
PeerSend(m) ==
    /\ mode = "connection" /\ alive
    /\ peer.frames < MaxFrames
    /\ stream' = stream \o FrameOf(m)
    /\ queue' = Append(queue, [bytes |-> FrameOf(m), msg |-> m, len |-> Len(FrameOf(m)) - 4, id |-> ID(m.kind)])
    /\ peer' = [peer EXCEPT !.frames = @ + 1]
    /\ UNCHANGED <<crate, mode, alive, last>>

\* the remote peer writes a hand-crafted frame, once in a behaviour; a
\* keep-alive has no id byte, recorded as -1
PeerRaw(len, id) ==
    /\ mode = "connection" /\ alive
    /\ peer.frames < MaxFrames /\ ~peer.crafted
    /\ stream' = stream \o RawFrame(len, id)
    /\ queue' = Append(queue, [bytes |-> RawFrame(len, id), msg |-> Nil, len |-> len, id |-> IF len = 0 THEN -1 ELSE id])
    /\ peer' = [frames |-> peer.frames + 1, crafted |-> TRUE]
    /\ UNCHANGED <<crate, mode, alive, last>>

\* Connection::recv::<R>() of the crate, R = Message or the container of a kind
Recv(ty) ==
    /\ mode = "connection" /\ alive
    /\ stream # <<>>
    /\ last.op = "recv" => ty = last.ty
    /\ LET r == IF crate = "bitrain_core" THEN Connection_recv(ty, stream)
                ELSE btc_Connection_recv(ty, stream)
       IN  /\ stream' = r.rd
           /\ alive' = (r.res.tag \in {"Some", "None"})
           /\ queue' = IF queue = <<>> THEN queue ELSE Tail(queue)
           /\ last' = [Rec("recv", ty, IF queue = <<>> THEN Nil ELSE Head(queue), stream, NoHint,
                           r, Aligned)
                       EXCEPT !.prev = IF last.op = "recv" /\ last.aligned THEN last.arg ELSE Nil]
    /\ UNCHANGED <<crate, mode, peer>>

\* tests::send_recv: Message::send_to, then Message::recv_from on the bytes
SendRecv(m) ==
    /\ mode = "calls" /\ last.op = "init"
    /\ LET s == IF crate = "bitrain_core" THEN [tag |-> "Ok", out |-> Message_send_to(m)]
                ELSE btc_SendContainer_send_to(m)
           r == IF s.tag = "Panic" THEN [res |-> Panic, rd |-> <<>>]
                ELSE IF crate = "bitrain_core" THEN Message_recv_from(s.out)
                ELSE btc_Message_recv_from(s.out)
       IN  last' = Rec("send_recv", "Message", m, s.out, NoHint,
                       [res |-> r.res, hint |-> NoHint, rd |-> r.rd], TRUE)
    /\ UNCHANGED <<crate, mode, stream, queue, alive, peer>>

\* tests::container: the container's send_to, then its recv_from on the bytes
ContainerTest(m) ==
    /\ mode = "calls" /\ last.op = "init"
    /\ LET s == IF crate = "bitrain_core" THEN [tag |-> "Ok", out |-> Container_send_to(m)]
                ELSE btc_SendContainer_send_to(m)
           r == IF s.tag = "Panic" THEN [res |-> Panic, rd |-> <<>>]
                ELSE IF crate = "bitrain_core" THEN Container_recv_from(m.kind, s.out)
                ELSE btc_RecvContainer_recv_from(m.kind, s.out)
       IN  last' = Rec("container", m.kind, m, s.out, NoHint,
                       [res |-> r.res, hint |-> NoHint, rd |-> r.rd], TRUE)
    /\ UNCHANGED <<crate, mode, stream, queue, alive, peer>>

\* tests::encode_decode (bitrain-core) and tests::vise_versa (build_torrent_core):
\* the type's own encoder, then its decoder with the byte count as the hint
EncodeDecode(m) ==
    /\ mode = "calls" /\ last.op = "init"
    /\ LET out == IF crate = "bitrain_core" THEN Encode_encode(m) ELSE btc_send_to(m)
           r == IF crate = "bitrain_core" THEN Decode_decode(m.kind, out)
                ELSE btc_recv_from(m.kind, Len(out), out)
       IN  last' = Rec("encode_decode", m.kind, m, out, Len(out), r, TRUE)
    /\ UNCHANGED <<crate, mode, stream, queue, alive, peer>>

\* the bytes a direct decoder call reads: n payload bytes 1, 2, .., n, behind
\* an id byte where the decoder reads one itself
DecodeInput(id, n) ==
    (IF crate = "bitrain_core" THEN <<>> ELSE <<id>>) \o [i \in 1..n |-> i]

\* Decode::decode_from (bitrain-core) or Recv::recv_from (build_torrent_core)
\* of the type of a kind, called with a length hint on a reader
DecodeFrom(kind, hint, id, n) ==
    /\ mode = "calls" /\ last.op = "init"
    /\ crate = "bitrain_core" => hint # NoHint /\ id = ID(kind)
    /\ LET inp == DecodeInput(id, n)
           r == IF crate = "bitrain_core" THEN decode_from(kind, hint, inp)
                ELSE btc_recv_from(kind, hint, inp)
       IN  last' = Rec("decode_from", kind, id, inp, hint, r, TRUE)
    /\ UNCHANGED <<crate, mode, stream, queue, alive, peer>>

\* tests::vise_versa for Handshake (build_torrent_core, hint Some(68)) and the
\* same round trip through bitrain-core: send_to, then recv_from on the bytes
HandshakeSendRecv(h) ==
    /\ mode = "calls" /\ last.op = "init"
    /\ LET out == IF crate = "bitrain_core" THEN Handshake_send_to(h) ELSE btc_Handshake_send_to(h)
           r == IF crate = "bitrain_core"
                THEN [res |-> Handshake_recv_from(out).res, hint |-> NoHint,
                      rd |-> Handshake_recv_from(out).rd]
                ELSE btc_Handshake_recv_from(Len(out), out)
       IN  last' = Rec("handshake_send_recv", "Handshake", h, out, Len(out), r, TRUE)
    /\ UNCHANGED <<crate, mode, stream, queue, alive, peer>>

\* Handshake::recv_from on hand-crafted bytes, called directly as Peer::connect
\* does (build_torrent_core, hint None) or through Connection::recv::<Handshake>()
\* as Peer::handshake does (bitrain-core)
HandshakeRecv(via, inp) ==
    /\ mode = "calls" /\ last.op = "init"
    /\ \E r \in { IF via = "connection"
                  THEN (IF crate = "bitrain_core" THEN Connection_recv("Handshake", inp)
                        ELSE btc_Connection_recv("Handshake", inp))
                  ELSE (IF crate = "bitrain_core"
                        THEN [res |-> Handshake_recv_from(inp).res, hint |-> NoHint,
                              rd |-> Handshake_recv_from(inp).rd]
                        ELSE btc_Handshake_recv_from(NoHint, inp)) } :
           last' = Rec(IF via = "connection" THEN "recv_handshake" ELSE "handshake_recv_from",
                       "Handshake", Nil, inp, NoHint, r, TRUE)
    /\ UNCHANGED <<crate, mode, stream, queue, alive, peer>>

\* Connection::send of a message or a handshake on a writer whose fail-th
\* call fails (0: none)
Send(ty, v, fail) ==
    /\ mode = "calls" /\ last.op = "init"
    /\ LET s == Connection_send(crate, ty, v, fail)
       IN  last' = [Rec("send", ty, [v |-> v, fail |-> fail], <<>>, NoHint,
                        [res |-> s.res, hint |-> NoHint, rd |-> <<>>], TRUE)
                    EXCEPT !.ops = s.ops]
    /\ UNCHANGED <<crate, mode, stream, queue, alive, peer>>

\* Encode::size and Encode::encode_to (bitrain-core) or Send::size and
\* Send::send_to (build_torrent_core) of the type of a kind, on one value
SizeEncode(m) ==
    /\ mode = "calls" /\ last.op = "init"
    /\ last' = Rec("size_encode", m.kind, m,
                   IF crate = "bitrain_core" THEN Encode_encode(m) ELSE btc_send_to(m),
                   IF crate = "bitrain_core" THEN Struct_size(Fields(m.kind), m.f) ELSE btc_size(m),
                   [res |-> Nil, hint |-> NoHint, rd |-> <<>>], TRUE)
    /\ UNCHANGED <<crate, mode, stream, queue, alive, peer>>

\* Decode::decode_from of u8, of u32 (impl_sr_for_primitive!), of Vec<u8>, of
\* [u8; 2] and of Box<[u8; 2]>, called with a length hint on a reader of n bytes
PrimitiveDecodeFrom(ty, hint, n) ==
    /\ mode = "calls" /\ last.op = "init"
    /\ crate = "bitrain_core"
    /\ \E r \in { CASE ty = "u8" -> u8_decode_from(hint, [i \in 1..n |-> i])
                    [] ty = "u32" -> u32_decode_from(hint, [i \in 1..n |-> i])
                    [] ty = "Vec" -> Vec_decode_from(hint, [i \in 1..n |-> i])
                    [] ty = "Array" -> Array_decode_from(2, hint, [i \in 1..n |-> i])
                    [] ty = "BoxArray" -> BoxArray_decode_from(2, hint, [i \in 1..n |-> i]) } :
           last' = Rec("primitive_decode_from", ty, Nil, [i \in 1..n |-> i], hint, r, TRUE)
    /\ UNCHANGED <<crate, mode, stream, queue, alive, peer>>

\* payload sizes around the largest u8 and the largest BTInt
Sizes == {0, 1, 254, 255, 256, BTINT_MAX - 1, BTINT_MAX, BTINT_MAX + 1}

\* the container's send_to on a payload of a given size(), in a build with
\* overflow checks ("debug") or without ("release")
SendSized(size, build) ==
    /\ mode = "calls" /\ last.op = "init"
    /\ \E s \in {Container_send_len(crate, size, build)} :
           last' = Rec("send_sized", "Container", [size |-> size, build |-> build], <<>>, NoHint,
                       [res |-> s.res, hint |-> s.len, rd |-> <<>>], TRUE)
    /\ UNCHANGED <<crate, mode, stream, queue, alive, peer>>

\* one Connection reading what the peer writes
ConnectionNext ==
    /\ mode = "connection" /\ alive
    /\ \/ \E m \in PeerMsgs : PeerSend(m)
       \/ \E len \in 0..MaxLen, id \in RawIds : PeerRaw(len, id)
       \/ \E ty \in {"Message"} \cup Kinds : Recv(ty)

\* one direct call of the codec
CallNext ==
    /\ mode = "calls" /\ last.op = "init"
    /\ \/ \E m \in Messages : SendRecv(m)
       \/ \E m \in Messages : ContainerTest(m)
       \/ \E m \in Messages : EncodeDecode(m)
       \/ \E kind \in Kinds, hint \in {NoHint} \cup 0..MaxLen, id \in RawIds, n \in 0..(MaxLen + 2) :
              DecodeFrom(kind, hint, id, n)
       \/ \E h \in Handshakes : HandshakeSendRecv(h)
       \/ \E via \in {"connection", "direct"}, inp \in HandshakeInputs : HandshakeRecv(via, inp)
       \/ \E m \in Messages, fail \in 0..MaxFail : Send("Message", m, fail)
       \/ \E h \in Handshakes, fail \in 0..MaxFail : Send("Handshake", h, fail)
       \/ \E m \in Messages : SizeEncode(m)
       \/ \E size \in Sizes, build \in {"debug", "release"} : SendSized(size, build)
       \/ \E ty \in {"u8", "u32", "Vec", "Array", "BoxArray"}, hint \in 0..MaxLen, n \in 0..(MaxLen + 2) :
              PrimitiveDecodeFrom(ty, hint, n)

Next == ConnectionNext \/ CallNext

Spec == Init /\ [][Next]_vars

TypeOK ==
    /\ crate \in Crates
    /\ mode \in {"connection", "calls"}
    /\ alive \in BOOLEAN
    /\ peer.crafted \in BOOLEAN /\ peer.frames \in 0..MaxFrames

\* ------------------------------------------------------- claim vocabulary
\* bytes the last call took from its reader
Consumed == Len(last.inp) - Len(last.rd)

\* the last call was Connection::recv::<ty>() at the boundary of a complete
\* frame the peer wrote
RecvAtFrame(ty) ==
    /\ last.op = "recv" /\ last.ty = ty
    /\ last.aligned /\ last.arg # Nil

\* payload bytes the fixed fields of a kind need
FixedBytes(id) ==
    CASE id = 4 -> 4
      [] id = 6 -> 12
      [] id = 7 -> 8
      [] id = 8 -> 12

\* ------------------------------------------------------------------ C1
\* C1: Message receive on a frame of length L >= 1 whose id is not 0..8
\* returns "no message" and takes exactly 4 + L bytes (header, id, and the
\* L - 1 bytes behind the id), and a well-formed frame right behind it is then
\* received as the message it carries.
C1_UnknownIdSkipped ==
    /\ ( RecvAtFrame("Message") /\ last.arg.len >= 1 /\ last.arg.id \notin 0..8 )
         => ( last.res = None /\ Consumed = 4 + last.arg.len )
    /\ ( RecvAtFrame("Message") /\ last.prev # Nil /\ last.arg.msg # Nil )
         => ( (last.prev.len >= 1 /\ last.prev.id \notin 0..8) => last.res = Some(last.arg.msg) )

\* ------------------------------------------------------------------ C2
\* C2: Message receive on a complete frame of length L whose id is Have,
\* Request, Piece or Cancel and whose L - 1 payload bytes are fewer than the
\* fixed fields need returns "no message" and has taken exactly 4 + L bytes.
C2_ShortPayloadSkipped ==
    ( RecvAtFrame("Message") /\ last.arg.id \in {4, 6, 7, 8}
      /\ last.arg.len - 1 < FixedBytes(last.arg.id) )
      => ( last.res = None /\ Consumed = 4 + last.arg.len )

\* ------------------------------------------------------------------ C3
\* C3: Connection.recv for the container of a kind R on a frame of length
\* L >= 1 whose id is not R's id returns "no message" and has taken the whole
\* frame, 4 + L bytes, so the reader stands at the next length header.
C3_WrongIdSkipped ==
    \A R \in Kinds :
        ( RecvAtFrame(R) /\ last.arg.len >= 1 /\ last.arg.id # ID(R) )
          => ( last.res = None /\ Consumed = 4 + last.arg.len /\ Aligned )

C5_RoundTrip ==
    last.op \in {"send_recv", "container", "encode_decode"}
      => ( last.res = Some(last.arg) /\ last.rd = <<>> )

\* ------------------------------------------------------------------ C6
\* the payload of a message: its fields in wire order, integers big-endian
Payload(m) ==
    CASE m.kind \in Units -> <<>>
      [] m.kind = "Have" -> write_u32(m.f[1])
      [] m.kind = "Bitfield" -> m.f[1]
      [] m.kind \in {"Request", "Cancel"} ->
             write_u32(m.f[1]) \o write_u32(m.f[2]) \o write_u32(m.f[3])
      [] m.kind = "Piece" -> write_u32(m.f[1]) \o write_u32(m.f[2]) \o m.f[3]

\* C6: a standalone message is sent as (payload size + 1) in 4 big-endian
\* bytes, then the id byte, then the payload, so the length field is the
\* number of bytes behind it.
C6_FrameLayout ==
    last.op \in {"send_recv", "container"}
      => /\ Len(last.inp) >= 5
         /\ SubSeq(last.inp, 1, 4) = write_u32(Len(Payload(last.arg)) + 1)
         /\ read_u32(SubSeq(last.inp, 1, 4)) = Len(last.inp) - 4
         /\ last.inp[5] = ID(last.arg.kind)
         /\ SubSeq(last.inp, 6, Len(last.inp)) = Payload(last.arg)

\* ------------------------------------------------------------------ C7
\* byte count of a fixed-shape kind, id byte included
ExpectedCount(kind) == IF kind = "Have" THEN 5 ELSE 13

\* C7: a fixed-shape kind (Have, Request, Cancel) decodes to a value only
\* when the length equals the expected count, 5 or 13 with the id byte: not
\* from a decoder call with another hint, and not from a frame whose
\* declared length is larger.
C7_ExactLength ==
    /\ ( last.op = "decode_from" /\ crate = "build_torrent_core"
         /\ last.ty \in {"Have", "Request", "Cancel"}
         /\ last.hint0 # NoHint /\ last.hint0 # ExpectedCount(last.ty) )
         => last.res.tag # "Some"
    /\ ( last.op = "decode_from" /\ crate = "bitrain_core"
         /\ last.ty \in {"Have", "Request", "Cancel"}
         /\ last.hint0 + 1 # ExpectedCount(last.ty) )
         => last.res.tag # "Some"
    /\ \A ty \in {"Message", "Have", "Request", "Cancel"} :
        ( RecvAtFrame(ty) /\ last.arg.id \in {4, 6, 8}
          /\ last.arg.len > ExpectedCount(IdFrom(last.arg.id)) )
          => last.res.tag # "Some"

\* ------------------------------------------------------------------ C8
\* C8: when the standalone decoder of Have, Request or Cancel reads an id
\* byte that is not its own, it returns absent with residual 4, 12, 12, the
\* expected count less the id byte it has read; that is what is left of the
\* frame, so the connection then stands at the next length header.
C8_IdMismatchResidual ==
    /\ ( last.op = "decode_from" /\ crate = "build_torrent_core"
         /\ last.ty \in {"Have", "Request", "Cancel"}
         /\ last.hint0 \in {NoHint, ExpectedCount(last.ty)}
         /\ last.inp # <<>> /\ last.inp[1] # ID(last.ty) )
         => /\ last.res = None
            /\ last.hint = ExpectedCount(last.ty) - 1
            /\ Consumed = 1
            /\ last.hint0 # NoHint => last.hint = last.hint0 - Consumed
    /\ \A R \in {"Have", "Request", "Cancel"} :
        ( crate = "build_torrent_core" /\ RecvAtFrame(R)
          /\ last.arg.len = ExpectedCount(R) /\ last.arg.id # ID(R) )
          => /\ last.res = None
             /\ last.hint = ExpectedCount(R) - 1
             /\ Consumed = 4 + last.arg.len /\ Aligned

\* the Request decoder read a foreign id byte of a 13-byte frame
C8_Witness ==
    /\ crate = "build_torrent_core" /\ RecvAtFrame("Request")
    /\ last.arg.len = 13 /\ last.arg.id = 7
    /\ last.res = None /\ last.hint = 12

\* ------------------------------------------------------------------ C9
\* C9: decoding a Bitfield with length hint h takes exactly h - 1 bytes as
\* bit data, and the decoded bits are those h - 1 bytes.
C9_BitfieldData ==
    ( last.op = "decode_from" /\ last.ty = "Bitfield" /\ last.hint0 >= 1
      /\ Len(last.inp) >= last.hint0 + 1
      /\ (crate = "build_torrent_core" => last.arg = 5) )
      => /\ last.res.tag = "Some"
         /\ Len(last.res.val.f[1]) = last.hint0 - 1
         /\ last.res.val.f[1] = [i \in 1..(last.hint0 - 1) |-> i]

\* ------------------------------------------------------------------ C10
\* C10: decoding a Piece with length hint h >= 8 takes piece_index and
\* offset as two 4-byte big-endian integers and then h - 8 bytes of data:
\* h bytes in all, and nothing of what follows.
C10_PieceData ==
    ( last.op = "decode_from" /\ last.ty = "Piece" /\ last.hint0 >= 8
      /\ Len(last.inp) >= last.hint0 + 1
      /\ (crate = "build_torrent_core" => last.arg = 7) )
      => /\ last.res.tag = "Some"
         /\ Len(last.res.val.f[3]) = last.hint0 - 8
         /\ Consumed = last.hint0

\* ------------------------------------------------------------------ C11
\* the last call was a Handshake receive on bytes that hold a whole protocol
\* name which is not "BitTorrent protocol"
WrongProtocolName ==
    /\ last.inp # <<>> /\ Len(last.inp) >= 1 + last.inp[1]
    /\ SubSeq(last.inp, 2, 1 + last.inp[1]) # BITTORRENT_PROTOCOL

\* C11: Handshake receive reads the length byte n and n name bytes; when the
\* name is not the 19 bytes "BitTorrent protocol" (any n other than 19
\* included) it returns "no message" without error, has read exactly 1 + n
\* bytes and reports no residual count.
C11_WrongProtocolName ==
    ( last.op = "handshake_recv_from" /\ WrongProtocolName )
      => /\ last.res = None
         /\ Consumed = 1 + last.inp[1]
         /\ last.hint = NoHint

\* a 19-byte name differing from the protocol name in its first letter was
\* received with bytes waiting behind it
C11_Witness ==
    /\ last.op = "handshake_recv_from" /\ WrongProtocolName
    /\ last.inp[1] = 19 /\ Len(last.inp) > 20
    /\ last.res = None /\ Len(last.rd) = Len(last.inp) - 20

\* ------------------------------------------------------------------ C12
\* C12: Handshake send writes 68 bytes: the byte 19, the 19 bytes
\* "BitTorrent protocol", the 8 reserved bytes, the 20-byte info hash and the
\* 20-byte peer id, in this order; Handshake receive on those bytes
\* returns the handshake sent, reserved bytes unchanged.
C12_HandshakeRoundTrip ==
    last.op = "handshake_send_recv"
      => /\ Len(last.inp) = 68
         /\ last.inp[1] = 19
         /\ SubSeq(last.inp, 2, 20) =
              << 66, 105, 116, 84, 111, 114, 114, 101, 110, 116, 32,
                 112, 114, 111, 116, 111, 99, 111, 108 >>
         /\ SubSeq(last.inp, 21, 28) = last.arg.reserved
         /\ SubSeq(last.inp, 29, 48) = last.arg.info_hash
         /\ SubSeq(last.inp, 49, 68) = last.arg.peer_id
         /\ last.res = Some(last.arg)
         /\ last.res.val.reserved = last.arg.reserved
         /\ last.rd = <<>>

\* a handshake with the extension bit and distinct hash and id came back
C12_Witness ==
    /\ last.op = "handshake_send_recv"
    /\ last.arg.reserved[6] = 16 /\ last.arg.info_hash # last.arg.peer_id
    /\ last.res = Some(last.arg)

\* ------------------------------------------------------------------ C13
RECURSIVE Written(_)
\* the bytes of the write calls of a sequence of writer calls
Written(ops) ==
    IF ops = <<>> THEN <<>>
    ELSE (IF Head(ops).op = "write" THEN Head(ops).bytes ELSE <<>>) \o Written(Tail(ops))

\* the frame the crate's send_to produces for the value of the last send
SentFrame ==
    IF last.ty = "Handshake"
    THEN (IF crate = "bitrain_core" THEN Handshake_send_to(last.arg.v)
          ELSE btc_Handshake_send_to(last.arg.v))
    ELSE (IF crate = "bitrain_core" THEN Message_send_to(last.arg.v)
          ELSE btc_SendContainer_send_to(last.arg.v).out)

\* number of write calls send_to makes for the value of the last send
SendToCalls == Len(send_to_calls(crate, last.ty, last.arg.v))

\* C13: Connection.send writes the whole frame through send_to and then
\* flushes, once; no flush happens in front of or between the writes; when a
\* write of send_to fails nothing is flushed and the error is returned.
C13_WriteThenFlush ==
    last.op = "send"
      => /\ \A i \in 1..(Len(last.ops) - 1) : last.ops[i].op = "write"
         /\ last.arg.fail \in 1..SendToCalls
              => /\ last.res = Err
                 /\ \A i \in 1..Len(last.ops) : last.ops[i].op = "write"
         /\ last.arg.fail \notin 1..SendToCalls
              => /\ Len(last.ops) = SendToCalls + 1
                 /\ last.ops[Len(last.ops)] = Flush
                 /\ Written(last.ops) = SentFrame
         /\ last.res = Some(<<>>) <=> last.arg.fail \notin 1..(SendToCalls + 1)

\* a Piece message went out in five writes and one flush behind them
C13_Witness ==
    /\ last.op = "send" /\ last.ty = "Message" /\ last.arg.v.kind = "Piece"
    /\ last.res = Some(<<>>)
    /\ Len(last.ops) = 6 /\ last.ops[6] = Flush

\* ------------------------------------------------------------------ C14
\* C14: a receive call never panics and returns an error only when a read of
\* the transport failed; a keep-alive, an unknown id and a wrong handshake
\* protocol name, each wholly on the stream, give "no message".
C14_AnomalyIsNoMessage ==
    /\ last.op \in {"recv", "recv_handshake", "handshake_recv_from"}
         => /\ last.res.tag # "Panic"
            /\ last.res.tag = "Err" => last.rd = <<>>
    /\ ( last.op \in {"recv_handshake", "handshake_recv_from"} /\ WrongProtocolName )
         => last.res = None
    /\ ( RecvAtFrame("Message") /\ (last.arg.len = 0 \/ last.arg.id \notin 0..8) )
         => last.res = None

\* ------------------------------------------------------------------ C26
\* C26: on a frame whose id is a kind without payload (0..3) and whose
\* declared length L is greater than 1, Message receive leaves the stream at
\* the end of that frame, 4 + L bytes taken, so the L - 1 bytes behind the id
\* are never read as the length header of the next frame.
C26_UnitFrameSkipped ==
    ( RecvAtFrame("Message") /\ last.arg.id \in 0..3 /\ last.arg.len > 1 )
      => ( Consumed = 4 + last.arg.len /\ Aligned )

\* ------------------------------------------------------------------ C27
\* C27: for every value of every message kind, size() is the number of bytes
\* the kind's encoder writes for the value, so the length prefix the frame
\* container computes from size() is the number of bytes written behind it.
C27_SizeIsBytesWritten ==
    /\ last.op = "size_encode" => last.hint0 = Len(last.inp)
    /\ ( last.op = "container" /\ last.res # Panic ) =>
         IF crate = "bitrain_core"
         THEN read_u32(SubSeq(last.inp, 1, 4)) = Len(last.inp) - 4
         ELSE last.inp[1] = Len(last.inp) - 1

\* ------------------------------------------------------------------ C28
\* C28: every Decode implementation (the integers, byte arrays, byte vectors
\* and every derived struct), on a successful return or a parsing failure,
\* leaves len_hint at its value at entry minus the number of bytes it took
\* from the reader; len_hint never increases and never underflows.
C28_HintTracksConsumed ==
    ( /\ crate = "bitrain_core"
      /\ last.op \in {"primitive_decode_from", "decode_from"}
      /\ last.res.tag \in {"Some", "None"} )
      => /\ last.hint = last.hint0 - Consumed
         /\ last.hint <= last.hint0
         /\ last.hint >= 0

\* ------------------------------------------------------------------ C30
\* C30: Container send never writes a length field that differs from the
\* payload size + 1: for a payload whose size() is the largest BTInt or more,
\* send refuses (fails or panics) before it writes anything instead of
\* writing a wrapped or truncated length.
C30_NoWrappedLength ==
    /\ last.op = "send_sized" =>
         /\ last.arg.size >= BTINT_MAX => ( last.res = Panic /\ last.hint = NoHint )
         /\ ( crate = "bitrain_core" /\ last.hint # NoHint ) => last.hint = last.arg.size + 1
    /\ ( last.op = "container" /\ last.res # Panic ) =>
         (IF crate = "bitrain_core" THEN read_u32(SubSeq(last.inp, 1, 4)) ELSE last.inp[1])
             = Len(Payload(last.arg)) + 1

\* ====================================================================
\* Bencode value codec of bitrain-core (bencoded/encoding.rs).  A behaviour
\* is one call of an encoder or a decoder on a bounded input.
\* ====================================================================

\* ------------------------------------------------------------------ bounds
MaxNodes == 4       \* most nodes (values) of an encoded bencode tree
MaxBytes == 5       \* longest hand-crafted bencode input

\* ------------------------------------------------------------- delimiters
INT_PREFIX == 105           \* b'i'

LIST_PREFIX == 108          \* b'l'

DICTIONARY_PREFIX == 100    \* b'd'

STRING_INFIX == 58          \* b':'

END_SUFFIX == 101           \* b'e'

\* std::result::Result<T, Error>
Ok(v) == [tag |-> "Ok", val |-> v]

\* Err(Error::InvalidFormat), Err(Error::InvalidValue), Err(Error::UnexpectedEOF)
BErr(kind) == [tag |-> "Err", kind |-> kind]

IsOk(r) == r.tag = "Ok"

\* enum Entry: one record shape for each variant
Integer(n) == [int |-> n]

String(b) == [str |-> b]

List(l) == [list |-> l]

\* HashMap<BString, Entry>: a function from its keys to their values
Dictionary(d) == [dict |-> d]

\* the variant of an Entry (the arms of `match self`)
Variant(e) ==
    IF "int" \in DOMAIN e THEN "Integer"
    ELSE IF "str" \in DOMAIN e THEN "String"
    ELSE IF "list" \in DOMAIN e THEN "List"
    ELSE "Dictionary"

\* the value an Entry holds
Inner(e) ==
    IF "int" \in DOMAIN e THEN e.int
    ELSE IF "str" \in DOMAIN e THEN e.str
    ELSE IF "list" \in DOMAIN e THEN e.list
    ELSE e.dict

\* HashMap::new()
HashMap_new == [k \in {} |-> Nil]

\* HashMap::insert: a key already present keeps one entry, with the new value
HashMap_insert(d, key, value) ==
    [k \in DOMAIN d \cup {key} |-> IF k = key THEN value ELSE d[k]]

RECURSIVE HashMap_iter(_)
\* HashMap::into_iter().collect::<Vec<_>>(): the pairs in an order the map decides
HashMap_iter(d) ==
    IF DOMAIN d = {} THEN <<>>
    ELSE LET k == CHOOSE x \in DOMAIN d : TRUE
         IN  << <<k, d[k]>> >> \o HashMap_iter([x \in DOMAIN d \ {k} |-> d[x]])

\* ------------------------------------------------------------------ utils
\* <[u8] as Ord>::cmp(left, right) = Less
BStr_less(left, right) ==
    \E i \in 1..(Len(left) + 1) :
        /\ i <= Len(right)
        /\ \A j \in 1..(i - 1) : left[j] = right[j]
        /\ (i = Len(left) + 1 \/ left[i] < right[i])

\* sort_key_value_entries leaving the entries in the order it found them
sort_key_value_entries_Unsorted(entries) == entries

RECURSIVE sort_insert(_, _)
\* one entry put into a sorted slice behind the entries not greater than it
sort_insert(sorted, entry) ==
    IF sorted = <<>> THEN <<entry>>
    ELSE IF BStr_less(entry[1], Head(sorted)[1]) THEN <<entry>> \o sorted
    ELSE <<Head(sorted)>> \o sort_insert(Tail(sorted), entry)

RECURSIVE sort_key_value_entries(_)
\* utils::sort_key_value_entries: the stable entries.sort_by on the keys
sort_key_value_entries(entries) ==
    IF entries = <<>> THEN <<>>
    ELSE sort_insert(sort_key_value_entries(SubSeq(entries, 1, Len(entries) - 1)),
                     entries[Len(entries)])

\* utils::collect_up_to: the bytes in front of the first delimiter; take_while
\* takes the delimiter off the iterator too, and everything when there is none
collect_up_to(rd, delimiter) ==
    LET hits == {i \in 1..Len(rd) : rd[i] = delimiter}
    IN  IF hits = {} THEN [out |-> rd, rd |-> <<>>]
        ELSE LET i == CHOOSE h \in hits : \A g \in hits : h <= g
             IN  [out |-> SubSeq(rd, 1, i - 1), rd |-> SubSeq(rd, i + 1, Len(rd))]

RECURSIVE DecimalValue(_)
\* the number a string of ASCII digits denotes
DecimalValue(digits) ==
    IF digits = <<>> THEN 0
    ELSE 10 * DecimalValue(SubSeq(digits, 1, Len(digits) - 1)) + (digits[Len(digits)] - 48)

\* utils::parse_utf8_bytes::<u64> and ::<usize>: str::from_utf8, then
\* str::parse, which takes one leading '+' and needs a digit; every failure
\* is Error::InvalidValue (the inputs are too short to overflow)
parse_utf8_bytes(bytes) ==
    LET digits == IF bytes # <<>> /\ bytes[1] = 43 THEN Tail(bytes) ELSE bytes
    IN  IF digits = <<>> \/ \E i \in 1..Len(digits) : digits[i] \notin 48..57
        THEN BErr("InvalidValue")
        ELSE Ok(DecimalValue(digits))

RECURSIVE Decimal(_)
\* format!("{}", n) of an unsigned integer
Decimal(n) == IF n < 10 THEN <<48 + n>> ELSE Decimal(n \div 10) \o <<48 + (n % 10)>>

\* ---------------------------------------------------------------- BEncode
\* BInt_encode_into_stream writing no END_SUFFIX
BInt_encode_into_stream_NoSuffix(n) == <<INT_PREFIX>> \o Decimal(n)

\* impl BEncode for BInt
BInt_encode_into_stream(n) == <<INT_PREFIX>> \o Decimal(n) \o <<END_SUFFIX>>

\* impl BEncode for &BStr
BStr_encode_into_stream(b) == Decimal(Len(b)) \o <<STRING_INFIX>> \o b

RECURSIVE Entry_encode_into_stream(_)
RECURSIVE BSlice_items(_)
RECURSIVE Pairs_items(_)
\* the loop of &BSlice::encode_into_stream: the items in order
BSlice_items(l) ==
    IF l = <<>> THEN <<>>
    ELSE Entry_encode_into_stream(Head(l)) \o BSlice_items(Tail(l))

\* impl BEncode for &BSlice
BSlice_encode_into_stream(l) == <<LIST_PREFIX>> \o BSlice_items(l) \o <<END_SUFFIX>>

\* the loop of &mut [(&K, &Entry)]::encode_into_stream: key, then value
Pairs_items(entries) ==
    IF entries = <<>> THEN <<>>
    ELSE BStr_encode_into_stream(Head(entries)[1])
         \o Entry_encode_into_stream(Head(entries)[2])
         \o Pairs_items(Tail(entries))

\* impl BEncode for &mut [(&K, &Entry)]
Pairs_encode_into_stream(entries) ==
    <<DICTIONARY_PREFIX>> \o Pairs_items(sort_key_value_entries(entries)) \o <<END_SUFFIX>>

\* impl BEncode for &BDictionary
BDictionary_encode_into_stream(d) == Pairs_encode_into_stream(HashMap_iter(d))

\* impl BEncode for &Entry
Entry_encode_into_stream(e) ==
    CASE Variant(e) = "Integer" -> BInt_encode_into_stream(Inner(e))
      [] Variant(e) = "String" -> BStr_encode_into_stream(Inner(e))
      [] Variant(e) = "List" -> BSlice_encode_into_stream(Inner(e))
      [] Variant(e) = "Dictionary" -> BDictionary_encode_into_stream(Inner(e))

\* ---------------------------------------------------------------- BDecode
\* a decoder's outcome and what is left on the byte iterator
\* impl BDecode for BInt
BInt_decode(rd) ==
    IF rd = <<>> \/ rd[1] # INT_PREFIX THEN [res |-> BErr("InvalidFormat"), rd |-> Drop(rd, 1)]
    ELSE LET repr == collect_up_to(Tail(rd), END_SUFFIX)
         IN  [res |-> parse_utf8_bytes(repr.out), rd |-> repr.rd]

\* BString_decode handing out the bytes it got without comparing their count
\* with the declared length
BString_decode_NoLengthCheck(rd) ==
    LET len_buf == collect_up_to(rd, STRING_INFIX)
        len == parse_utf8_bytes(len_buf.out)
    IN  IF ~IsOk(len) THEN [res |-> len, rd |-> len_buf.rd]
        ELSE [res |-> Ok(Take(len_buf.rd, len.val)), rd |-> Drop(len_buf.rd, len.val)]

\* impl BDecode for BString
BString_decode(rd) ==
    LET len_buf == collect_up_to(rd, STRING_INFIX)
        len == parse_utf8_bytes(len_buf.out)
    IN  IF ~IsOk(len) THEN [res |-> len, rd |-> len_buf.rd]
        ELSE LET repr == Take(len_buf.rd, len.val)
             IN  IF Len(repr) = len.val
                 THEN [res |-> Ok(repr), rd |-> Drop(len_buf.rd, len.val)]
                 ELSE [res |-> BErr("UnexpectedEOF"), rd |-> <<>>]

RECURSIVE Entry_decode(_)
RECURSIVE BList_loop(_, _)
RECURSIVE BDictionary_loop(_, _)
\* the loop of BList::decode; the END_SUFFIX it peeks is taken off the
\* iterator by the Peekable that is dropped with it
BList_loop(rd, list) ==
    IF rd = <<>> THEN [res |-> BErr("UnexpectedEOF"), rd |-> <<>>]
    ELSE IF rd[1] = END_SUFFIX THEN [res |-> Ok(list), rd |-> Tail(rd)]
    ELSE LET item == Entry_decode(rd)
         IN  IF IsOk(item.res) THEN BList_loop(item.rd, Append(list, item.res.val))
             ELSE item

\* impl BDecode for BList
BList_decode(rd) ==
    IF rd = <<>> \/ rd[1] # LIST_PREFIX THEN [res |-> BErr("InvalidFormat"), rd |-> Drop(rd, 1)]
    ELSE BList_loop(Tail(rd), <<>>)

\* the loop of BDictionary::decode
BDictionary_loop(rd, dictionary) ==
    IF rd = <<>> THEN [res |-> BErr("UnexpectedEOF"), rd |-> <<>>]
    ELSE IF rd[1] = END_SUFFIX THEN [res |-> Ok(dictionary), rd |-> Tail(rd)]
    ELSE LET key == BString_decode(rd)
         IN  IF ~IsOk(key.res) THEN key
             ELSE LET value == Entry_decode(key.rd)
                  IN  IF ~IsOk(value.res) THEN value
                      ELSE BDictionary_loop(value.rd,
                               HashMap_insert(dictionary, key.res.val, value.res.val))

\* impl BDecode for BDictionary: the first byte is compared with LIST_PREFIX
BDictionary_decode(rd) ==
    IF rd = <<>> \/ rd[1] # LIST_PREFIX THEN [res |-> BErr("InvalidFormat"), rd |-> Drop(rd, 1)]
    ELSE BDictionary_loop(Tail(rd), HashMap_new)

\* impl BDecode for Entry: dispatch on the peeked byte
Entry_decode(rd) ==
    IF rd = <<>> THEN [res |-> BErr("InvalidFormat"), rd |-> <<>>]
    ELSE IF rd[1] = INT_PREFIX
         THEN LET r == BInt_decode(rd)
              IN  IF IsOk(r.res) THEN [r EXCEPT !.res = Ok(Integer(r.res.val))] ELSE r
    ELSE IF rd[1] = LIST_PREFIX
         THEN LET r == BList_decode(rd)
              IN  IF IsOk(r.res) THEN [r EXCEPT !.res = Ok(List(r.res.val))] ELSE r
    ELSE IF rd[1] = DICTIONARY_PREFIX
         THEN LET r == BDictionary_decode(rd)
              IN  IF IsOk(r.res) THEN [r EXCEPT !.res = Ok(Dictionary(r.res.val))] ELSE r
    ELSE LET r == BString_decode(rd)
         IN  IF IsOk(r.res) THEN [r EXCEPT !.res = Ok(String(r.res.val))] ELSE r

\* ------------------------------------------------------------ input sets
\* the leaves of the encoded trees: 0, 42, "" and "x"
Leaves == { Integer(0), Integer(42), String(<<>>), String(<<120>>) }

\* the keys of the encoded dictionaries, in the order they are given out:
\* "b", "a", "ab", "B"
KeyList == << <<98>>, <<97>>, <<97, 98>>, <<66>> >>

RECURSIVE TreesOf(_)
RECURSIVE SeqsOf(_)
\* the sequences of trees with m nodes in all
SeqsOf(m) ==
    IF m = 0 THEN { <<>> }
    ELSE UNION { { <<t>> \o q : t \in TreesOf(k), q \in SeqsOf(m - k) } : k \in 1..m }

\* the trees of exactly n nodes: a leaf, a list of trees, or a dictionary
\* that maps the first keys of KeyList to trees
TreesOf(n) ==
    IF n = 1 THEN Leaves \cup { List(<<>>), Dictionary(HashMap_new) }
    ELSE { List(q) : q \in SeqsOf(n - 1) }
         \cup { Dictionary([k \in {KeyList[i] : i \in 1..Len(q)} |->
                               q[CHOOSE i \in 1..Len(q) : KeyList[i] = k]]) :
                q \in {x \in SeqsOf(n - 1) : Len(x) <= Len(KeyList)} }

Trees == UNION { TreesOf(n) : n \in 1..MaxNodes }

\* the values of the literal vectors: 42, "spam", [1, 2] and
\* {"cow": "moo", "spam": "eggs"}
Vectors ==
    { Integer(42),
      String(<<115, 112, 97, 109>>),
      List(<< Integer(1), Integer(2) >>),
      Dictionary(HashMap_insert(HashMap_insert(HashMap_new,
                     <<115, 112, 97, 109>>, String(<<101, 103, 103, 115>>)),
                     <<99, 111, 119>>, String(<<109, 111, 111>>))) }

\* canonical bencode samples: integers, byte strings, the empty list, the
\* empty dictionary, nested structures
Samples ==
    {
      <<105, 52, 50, 101>>,                                          \* i42e
      <<105, 48, 101>>,                                              \* i0e
      <<52, 58, 115, 112, 97, 109>>,                                 \* 4:spam
      <<48, 58>>,                                                    \* 0:
      <<108, 101>>,                                                  \* le
      <<100, 101>>,                                                  \* de
      <<108, 105, 49, 101, 105, 50, 101, 101>>,                      \* li1ei2ee
      <<108, 52, 58, 115, 112, 97, 109, 105, 52, 50, 101, 101>>,     \* l4:spami42ee
      <<108, 108, 101, 108, 105, 48, 101, 101, 101>>,                \* lleli0eee
      <<100, 51, 58, 99, 111, 119, 51, 58, 109, 111, 111, 101>>,     \* d3:cow3:mooe
      <<100, 51, 58, 99, 111, 119, 108, 105, 49, 101, 101, 101>>,    \* d3:cowli1eee
      <<108, 100, 49, 58, 120, 100, 101, 101, 101>> }                \* ld1:xdeee

\* the bytes of hand-crafted inputs: i l d e : 0 1 x +
Alphabet == {105, 108, 100, 101, 58, 48, 49, 120, 43}

ByteSeqs == UNION { [1..n -> Alphabet] : n \in 0..MaxBytes }

\* key/value slices with distinct keys, in every order
PairSeqs ==
    UNION { { q \in [1..n -> {KeyList[i] : i \in 1..Len(KeyList)} \X {Integer(0), String(<<120>>)}] :
                \A i, j \in 1..n : i # j => q[i][1] # q[j][1] } :
            n \in 0..Min(MaxNodes - 1, Len(KeyList)) }

BRec(op, arg, inp, res, rd, out) ==
    [op |-> op, arg |-> arg, inp |-> inp, res |-> res, rd |-> rd, out |-> out]

\* ---------------------------------------------------------------- actions
BInit ==
    /\ crate = "bitrain_core"
    /\ mode = "bencode"
    /\ stream = <<>>
    /\ queue = <<>>
    /\ alive = TRUE
    /\ peer = [frames |-> 0, crafted |-> FALSE]
    /\ last = BRec("init", Nil, <<>>, Nil, <<>>, <<>>)

\* BEncode::encode of a value, then Entry::decode on the bytes
BEncodeDecode(e) ==
    /\ last.op = "init"
    /\ LET out == Entry_encode_into_stream(e)
           r == Entry_decode(out)
       IN  last' = BRec("encode_decode", e, out, r.res, r.rd, out)
    /\ UNCHANGED <<crate, mode, stream, queue, alive, peer>>

\* Entry::decode on bytes, then BEncode::encode of the value decoded
BDecodeEncode(bytes) ==
    /\ last.op = "init"
    /\ LET r == Entry_decode(bytes)
       IN  last' = BRec("decode_encode", Nil, bytes, r.res, r.rd,
                        IF IsOk(r.res) THEN Entry_encode_into_stream(r.res.val) ELSE <<>>)
    /\ UNCHANGED <<crate, mode, stream, queue, alive, peer>>

\* BString::decode on bytes
BStringDecode(bytes) ==
    /\ last.op = "init"
    /\ LET r == BString_decode(bytes)
       IN  last' = BRec("string_decode", Nil, bytes, r.res, r.rd, <<>>)
    /\ UNCHANGED <<crate, mode, stream, queue, alive, peer>>

\* BEncode::encode of a slice of key/value pairs
BEncodePairs(entries) ==
    /\ last.op = "init"
    /\ last' = BRec("encode_pairs", entries, <<>>, Nil, <<>>, Pairs_encode_into_stream(entries))
    /\ UNCHANGED <<crate, mode, stream, queue, alive, peer>>

RECURSIVE PairsInput(_)
\* key and value of each pair encoded one behind the other, unsorted
PairsInput(entries) ==
    IF entries = <<>> THEN <<>>
    ELSE BStr_encode_into_stream(Head(entries)[1]) \o Entry_encode_into_stream(Head(entries)[2])
         \o PairsInput(Tail(entries))

\* key/value pairs in input order, keys "a" and "b" that may repeat
RepeatedPairSeqs ==
    UNION { [1..n -> { <<97>>, <<98>> } \X { Integer(0), Integer(1) }] : n \in 1..(MaxNodes - 1) }

\* the bytes of a dictionary written pair by pair in the order given, behind
\* a prefix byte
DictionaryBytes(prefix, entries) ==
    <<prefix>> \o PairsInput(entries) \o <<END_SUFFIX>>

\* BDictionary::decode on the bytes of key/value pairs, called directly or
\* reached through Entry::decode
BDictionaryDecode(via, prefix, entries) ==
    /\ last.op = "init"
    /\ \E r \in { IF via = "Entry" THEN Entry_decode(DictionaryBytes(prefix, entries))
                  ELSE BDictionary_decode(DictionaryBytes(prefix, entries)) } :
           last' = BRec(IF via = "Entry" THEN "entry_decode_pairs" ELSE "dictionary_decode",
                        entries, DictionaryBytes(prefix, entries), r.res, r.rd, <<>>)
    /\ UNCHANGED <<crate, mode, stream, queue, alive, peer>>

BNext ==
    /\ mode = "bencode" /\ last.op = "init"
    /\ \/ \E e \in Trees \cup Vectors : BEncodeDecode(e)
       \/ \E bytes \in Samples \cup ByteSeqs : BDecodeEncode(bytes)
       \/ \E bytes \in ByteSeqs : BStringDecode(bytes)
       \/ \E entries \in PairSeqs : BEncodePairs(entries)
       \/ \E via \in {"Entry", "BDictionary"}, prefix \in {DICTIONARY_PREFIX, LIST_PREFIX},
             entries \in RepeatedPairSeqs : BDictionaryDecode(via, prefix, entries)

BencodeSpec == BInit /\ [][BNext]_vars

\* ------------------------------------------------------------------ C15
\* C15: for every value tree of integers, byte strings, lists and
\* dictionaries, decoding the bytes that encoding the tree produced succeeds
\* and returns the tree.
C15_TreeRoundTrip ==
    last.op = "encode_decode" => ( last.res = Ok(last.arg) /\ last.rd = <<>> )

\* ------------------------------------------------------------------ C16
\* C16: every canonical sample (integer, byte string, "le", "de", nested
\* structure) decodes, and encoding the decoded value gives the sample back.
C16_SampleRoundTrip ==
    ( last.op = "decode_encode" /\ last.inp \in Samples )
      => ( IsOk(last.res) /\ last.out = last.inp )

\* ------------------------------------------------------------------ C17
\* the keys of a set, ascending by their raw bytes
Ascending(keys) ==
    CHOOSE q \in [1..Cardinality(keys) -> keys] :
        \A i, j \in 1..Cardinality(keys) : i < j => BStr_less(q[i], q[j])

RECURSIVE PairsInOrder(_, _)
\* key and value encoded for each key of a sequence, d the key/value mapping
PairsInOrder(q, d) ==
    IF q = <<>> THEN <<>>
    ELSE BStr_encode_into_stream(Head(q)) \o Entry_encode_into_stream(d[Head(q)])
         \o PairsInOrder(Tail(q), d)

\* the mapping a slice of pairs with distinct keys holds
MapOf(entries) ==
    [k \in {entries[i][1] : i \in 1..Len(entries)} |->
        entries[CHOOSE i \in 1..Len(entries) : entries[i][1] = k][2]]

\* C17: the pairs of an encoded dictionary come out ascending by the raw
\* bytes of the key, so the bytes depend on the pairs held and not on the
\* order in which they stand in the slice or come out of the map.
C17_SortedKeys ==
    /\ last.op = "encode_pairs"
         => last.out = <<100>> \o PairsInOrder(Ascending(DOMAIN MapOf(last.arg)), MapOf(last.arg))
                         \o <<101>>
    /\ ( last.op = "encode_decode" /\ Variant(last.arg) = "Dictionary" )
         => last.out = <<100>> \o PairsInOrder(Ascending(DOMAIN Inner(last.arg)), Inner(last.arg)) \o <<101>>

\* three pairs handed over as "b", "a", "B" came out as "B", "a", "b"
C17_Witness ==
    /\ last.op = "encode_pairs" /\ Len(last.arg) = 3
    /\ last.arg[1][1] = <<98>> /\ last.arg[2][1] = <<97>> /\ last.arg[3][1] = <<66>>
    /\ SubSeq(last.out, 1, 4) = <<100, 49, 58, 66>>

\* ------------------------------------------------------------------ C18
RECURSIVE Bencoded(_)
RECURSIVE BencodedItems(_)
RECURSIVE BencodedPairs(_, _)
BencodedItems(l) == IF l = <<>> THEN <<>> ELSE Bencoded(Head(l)) \o BencodedItems(Tail(l))

BencodedPairs(q, d) ==
    IF q = <<>> THEN <<>>
    ELSE Decimal(Len(Head(q))) \o <<58>> \o Head(q) \o Bencoded(d[Head(q)])
         \o BencodedPairs(Tail(q), d)

\* the bencode grammar: i<digits>e, <length>:<bytes>, l<items>e, d<sorted pairs>e
Bencoded(e) ==
    CASE Variant(e) = "Integer" -> <<105>> \o Decimal(Inner(e)) \o <<101>>
      [] Variant(e) = "String" -> Decimal(Len(Inner(e))) \o <<58>> \o Inner(e)
      [] Variant(e) = "List" -> <<108>> \o BencodedItems(Inner(e)) \o <<101>>
      [] Variant(e) = "Dictionary" -> <<100>> \o BencodedPairs(Ascending(DOMAIN Inner(e)), Inner(e)) \o <<101>>

\* C18: encode follows the bencode grammar; 42 gives "i42e", "spam" gives
\* "4:spam", [1, 2] gives "li1ei2ee" and {"cow": "moo", "spam": "eggs"} gives
\* "d3:cow3:moo4:spam4:eggse".
C18_Grammar ==
    last.op = "encode_decode"
      => /\ last.out = Bencoded(last.arg)
         /\ last.arg = Integer(42) => last.out = <<105, 52, 50, 101>>
         /\ last.arg = String(<<115, 112, 97, 109>>) => last.out = <<52, 58, 115, 112, 97, 109>>
         /\ last.arg = List(<< Integer(1), Integer(2) >>)
              => last.out = <<108, 105, 49, 101, 105, 50, 101, 101>>
         /\ ( Variant(last.arg) = "Dictionary" /\ DOMAIN Inner(last.arg) = { <<99, 111, 119>>, <<115, 112, 97, 109>> } )
              => last.out = << 100, 51, 58, 99, 111, 119, 51, 58, 109, 111, 111,
                               52, 58, 115, 112, 97, 109, 52, 58, 101, 103, 103, 115, 101 >>

\* the dictionary {"cow": "moo", "spam": "eggs"} was encoded
C18_Witness ==
    /\ last.op = "encode_decode" /\ Variant(last.arg) = "Dictionary"
    /\ DOMAIN Inner(last.arg) = { <<99, 111, 119>>, <<115, 112, 97, 109>> }
    /\ Len(last.out) = 24

\* ------------------------------------------------------------------ C19
\* C19: decode fails with InvalidFormat, and with no other error, when the
\* input is empty or its first byte is not 'i', 'l', 'd' or an ASCII digit.
C19_InvalidFormat ==
    ( last.op = "decode_encode"
      /\ (last.inp = <<>> \/ last.inp[1] \notin {105, 108, 100} \cup 48..57) )
      => last.res = BErr("InvalidFormat")

\* ------------------------------------------------------------------ C20
\* the input starts with decimal digits and a ':' behind them
HasLengthPrefix(inp) ==
    \E k \in 2..Len(inp) : inp[k] = 58 /\ \A j \in 1..(k - 1) : inp[j] \in 48..57

\* where the ':' of the length prefix stands
InfixAt(inp) == CHOOSE k \in 2..Len(inp) : inp[k] = 58 /\ \A j \in 1..(k - 1) : inp[j] \in 48..57

\* the length the prefix declares
Declared(inp) == DecimalValue(SubSeq(inp, 1, InfixAt(inp) - 1))

\* the bytes behind the ':'
Behind(inp) == SubSeq(inp, InfixAt(inp) + 1, Len(inp))

\* C20: decoding a byte string whose decimal length prefix declares n bytes
\* fails with UnexpectedEOF when fewer than n bytes stand behind the ':',
\* and otherwise returns exactly the next n bytes and leaves the rest.
C20_StringLength ==
    ( last.op \in {"string_decode", "decode_encode"} /\ HasLengthPrefix(last.inp) )
      => IF Len(Behind(last.inp)) < Declared(last.inp)
         THEN last.res = BErr("UnexpectedEOF")
         ELSE /\ last.res = IF last.op = "string_decode"
                            THEN Ok(SubSeq(Behind(last.inp), 1, Declared(last.inp)))
                            ELSE Ok(String(SubSeq(Behind(last.inp), 1, Declared(last.inp))))
              /\ last.rd = SubSeq(Behind(last.inp), Declared(last.inp) + 1, Len(Behind(last.inp)))

\* "1:x" was decoded with more bytes behind it
C20_Witness ==
    /\ last.op = "string_decode" /\ Len(last.inp) > 3
    /\ SubSeq(last.inp, 1, 3) = <<49, 58, 120>>
    /\ last.res = Ok(<<120>>) /\ last.rd # <<>>

\* ------------------------------------------------------------------ C21
\* some key stands at more than one place of a sequence of pairs
HasRepeatedKey(entries) ==
    \E i, j \in 1..Len(entries) : i # j /\ entries[i][1] = entries[j][1]

\* each key of a sequence of pairs, mapped to the value of its last occurrence
LastOf(entries) ==
    [k \in {entries[i][1] : i \in 1..Len(entries)} |->
        entries[CHOOSE i \in 1..Len(entries) :
                    /\ entries[i][1] = k
                    /\ \A j \in (i + 1)..Len(entries) : entries[j][1] # k][2]]

\* C21: decoding a dictionary ('d', pairs, 'e') in which a key occurs more
\* than once succeeds, and the dictionary holds each key once, mapped to the
\* value of its last occurrence.
C21_RepeatedKey ==
    /\ ( last.op = "dictionary_decode" /\ last.inp[1] = DICTIONARY_PREFIX
         /\ HasRepeatedKey(last.arg) )
         => last.res = Ok(LastOf(last.arg))
    /\ ( last.op = "entry_decode_pairs" /\ last.inp[1] = DICTIONARY_PREFIX
         /\ HasRepeatedKey(last.arg) )
         => last.res = Ok(Dictionary(LastOf(last.arg)))

\* ====================================================================
\* Metainfo mapping of build_torrent_core (bencoded/custom.rs) over the
\* Entry values of the bencode codec.  A behaviour is one field lookup on
\* a dictionary, or one parse of an info or a metainfo entry.
\* ====================================================================

\* ------------------------------------------------------------------ bounds
MaxFiles == 2       \* most entries of a "files" list

\* the largest number of seconds NaiveDateTime::from_timestamp takes without
\* a panic, scaled to the integers of the model: the bound of the library is
\* 8_210_298_412_799, below the largest i64 and above the largest integer here
MAX_DATETIME_SECS == 1000

\* str::as_bytes of the field names
as_bytes(key) ==
    CASE key = "info" -> <<105, 110, 102, 111>>
      [] key = "announce" -> <<97, 110, 110, 111, 117, 110, 99, 101>>
      [] key = "announce-list" -> <<97, 110, 110, 111, 117, 110, 99, 101, 45, 108, 105, 115, 116>>
      [] key = "creation date" -> <<99, 114, 101, 97, 116, 105, 111, 110, 32, 100, 97, 116, 101>>
      [] key = "comment" -> <<99, 111, 109, 109, 101, 110, 116>>
      [] key = "created by" -> <<99, 114, 101, 97, 116, 101, 100, 32, 98, 121>>
      [] key = "encoding" -> <<101, 110, 99, 111, 100, 105, 110, 103>>
      [] key = "piece length" -> <<112, 105, 101, 99, 101, 32, 108, 101, 110, 103, 116, 104>>
      [] key = "pieces" -> <<112, 105, 101, 99, 101, 115>>
      [] key = "name" -> <<110, 97, 109, 101>>
      [] key = "private" -> <<112, 114, 105, 118, 97, 116, 101>>
      [] key = "files" -> <<102, 105, 108, 101, 115>>
      [] key = "length" -> <<108, 101, 110, 103, 116, 104>>
      [] key = "md5sum" -> <<109, 100, 53, 115, 117, 109>>
      [] key = "path" -> <<112, 97, 116, 104>>

\* Err(Error::MissingField(key)), Err(Error::InvalidFormat(key))
FieldErr(kind, key) == [tag |-> "Err", kind |-> kind, field |-> key]

\* std::str::from_utf8(..).is_ok() on the byte strings used here: ASCII
\* bytes are valid, a byte above 127 standing alone is not
is_utf8(b) == \A i \in 1..Len(b) : b[i] < 128

\* TryFrom<Entry> for BInt, BString, BList, BDictionary and String: the value
\* of the matching variant, or the entry handed back
Entry_try_into(T, e) ==
    IF T = "BInt" THEN (IF Variant(e) = "Integer" THEN Some(e.int) ELSE None)
    ELSE IF T = "BString" THEN (IF Variant(e) = "String" THEN Some(e.str) ELSE None)
    ELSE IF T = "BList" THEN (IF Variant(e) = "List" THEN Some(e.list) ELSE None)
    ELSE IF T = "BDictionary" THEN (IF Variant(e) = "Dictionary" THEN Some(e.dict) ELSE None)
    ELSE (IF Variant(e) = "String" /\ is_utf8(e.str) THEN Some(e.str) ELSE None)

\* Entry::parse::<T>
Entry_parse(T, e) == Entry_try_into(T, e)

\* Entry::parse_or_err::<T, _>
Entry_parse_or_err(T, e, err) ==
    IF IsSome(Entry_try_into(T, e)) THEN Ok(Entry_try_into(T, e).val) ELSE err

\* HashMap::remove: the value the key had, and the map without the key
HashMap_remove(d, key) ==
    [res |-> IF key \in DOMAIN d THEN Some(d[key]) ELSE None,
     dict |-> [k \in DOMAIN d \ {key} |-> d[k]]]

\* utils::parse_optional_primitive::<T>
parse_optional_primitive(dictionary, key, T) ==
    [res |-> IF as_bytes(key) \in DOMAIN dictionary
             THEN Entry_parse(T, dictionary[as_bytes(key)])
             ELSE None,
     dict |-> HashMap_remove(dictionary, as_bytes(key)).dict]

\* parse_required_primitive that looks the key up and leaves it in the dictionary
parse_required_primitive_NoRemove(dictionary, key, T) ==
    [res |-> IF as_bytes(key) \notin DOMAIN dictionary THEN FieldErr("MissingField", key)
             ELSE IF IsSome(Entry_parse(T, dictionary[as_bytes(key)]))
             THEN Ok(Entry_parse(T, dictionary[as_bytes(key)]).val)
             ELSE FieldErr("InvalidFormat", key),
     dict |-> dictionary]

\* utils::parse_required_primitive::<T>
parse_required_primitive(dictionary, key, T) ==
    [res |-> IF as_bytes(key) \notin DOMAIN dictionary THEN FieldErr("MissingField", key)
             ELSE IF IsSome(Entry_parse(T, dictionary[as_bytes(key)]))
             THEN Ok(Entry_parse(T, dictionary[as_bytes(key)]).val)
             ELSE FieldErr("InvalidFormat", key),
     dict |-> HashMap_remove(dictionary, as_bytes(key)).dict]

\* the path of FileInfo::parse: String::try_from on every item, the first
\* failure ends the collect
path_collect(list) ==
    IF \E i \in 1..Len(list) : ~IsSome(Entry_try_into("String", list[i]))
    THEN FieldErr("InvalidFormat", "path")
    ELSE Ok([i \in 1..Len(list) |-> list[i].str])

\* FileInfo::parse
FileInfo_parse(entry) ==
    IF Variant(entry) # "Dictionary" THEN FieldErr("InvalidFormat", "files")
    ELSE CHOOSE out \in
      { IF ~IsOk(list.res) THEN list.res
        ELSE IF ~IsOk(path_collect(list.res.val)) THEN path_collect(list.res.val)
        ELSE CHOOSE out_l \in
          { IF ~IsOk(length.res) THEN length.res
            ELSE [tag |-> "Ok",
                  val |-> [length |-> length.res.val,
                           md5sum |-> parse_optional_primitive(length.dict, "md5sum", "BString").res,
                           path |-> path_collect(list.res.val).val]]
            : length \in {parse_required_primitive(list.dict, "length", "BInt")} } : TRUE
        : list \in {parse_required_primitive(entry.dict, "path", "BList")} } : TRUE

\* entries.into_iter().map(FileInfo::parse).collect::<Result<Vec<_>>>(): the
\* files in order, or the error of the first entry that fails
files_collect(entries) ==
    IF \E i \in 1..Len(entries) : ~IsOk(FileInfo_parse(entries[i]))
    THEN FileInfo_parse(entries[CHOOSE i \in 1..Len(entries) :
                                    /\ ~IsOk(FileInfo_parse(entries[i]))
                                    /\ \A j \in 1..(i - 1) : IsOk(FileInfo_parse(entries[j]))])
    ELSE Ok([i \in 1..Len(entries) |-> FileInfo_parse(entries[i]).val])

\* Info::parse_file_info choosing the form by the "length" key
Info_parse_file_info_ByLength(info) ==
    IF as_bytes("length") \in DOMAIN info
    THEN CHOOSE out \in
      { IF ~IsOk(length.res) THEN [res |-> length.res, dict |-> length.dict]
        ELSE [res |-> Ok(<< [length |-> length.res.val,
                             md5sum |-> parse_optional_primitive(length.dict, "md5sum", "BString").res,
                             path |-> <<>>] >>),
              dict |-> parse_optional_primitive(length.dict, "md5sum", "BString").dict]
        : length \in {parse_required_primitive(info, "length", "BInt")} } : TRUE
    ELSE CHOOSE out \in
      { IF ~IsOk(entries.res) THEN [res |-> entries.res, dict |-> entries.dict]
        ELSE [res |-> files_collect(entries.res.val), dict |-> entries.dict]
        : entries \in {parse_required_primitive(info, "files", "BList")} } : TRUE

\* Info::parse_file_info
Info_parse_file_info(info) ==
    IF as_bytes("files") \notin DOMAIN info
    THEN CHOOSE out \in
      { IF ~IsOk(length.res) THEN [res |-> length.res, dict |-> length.dict]
        ELSE [res |-> Ok(<< [length |-> length.res.val,
                             md5sum |-> parse_optional_primitive(length.dict, "md5sum", "BString").res,
                             path |-> <<>>] >>),
              dict |-> parse_optional_primitive(length.dict, "md5sum", "BString").dict]
        : length \in {parse_required_primitive(info, "length", "BInt")} } : TRUE
    ELSE CHOOSE out \in
      { IF ~IsOk(entries.res) THEN [res |-> entries.res, dict |-> entries.dict]
        ELSE [res |-> files_collect(entries.res.val), dict |-> entries.dict]
        : entries \in {parse_required_primitive(info, "files", "BList")} } : TRUE

\* Info::parse
Info_parse(entry) ==
    IF Variant(entry) # "Dictionary" THEN FieldErr("InvalidFormat", "info")
    ELSE CHOOSE out \in
      { IF ~IsOk(piece_length.res) THEN piece_length.res
        ELSE CHOOSE out_1 \in
          { IF ~IsOk(pieces.res) THEN pieces.res
            ELSE CHOOSE out_2 \in
              { IF ~IsOk(name.res) THEN name.res
                ELSE CHOOSE out_3 \in
                  { CHOOSE out_4 \in
                      { IF ~IsOk(files.res) THEN files.res
                        ELSE [tag |-> "Ok",
                              val |-> [piece_length |-> piece_length.res.val,
                                       pieces |-> pieces.res.val,
                                       private |-> IF IsSome(private.res)
                                                   THEN Some(private.res.val = 1) ELSE None,
                                       name |-> name.res.val,
                                       files |-> files.res.val]]
                        : files \in {Info_parse_file_info(private.dict)} } : TRUE
                    : private \in {parse_optional_primitive(name.dict, "private", "BInt")} } : TRUE
                : name \in {parse_required_primitive(pieces.dict, "name", "String")} } : TRUE
            : pieces \in {parse_required_primitive(piece_length.dict, "pieces", "BString")} } : TRUE
        : piece_length \in {parse_required_primitive(entry.dict, "piece length", "BInt")} } : TRUE

\* Metainfo::parse_announce_list: the entries that are lists, each mapped to
\* its strings; a tier with an item that is no string is left out
parse_announce_list(blist) ==
    IF ~IsSome(blist) THEN None
    ELSE Some(SelectSeq([i \in 1..Len(blist.val) |->
                            IF Variant(blist.val[i]) # "List" THEN None
                            ELSE IF \E j \in 1..Len(blist.val[i].list) :
                                       ~IsSome(Entry_parse("String", blist.val[i].list[j]))
                            THEN None
                            ELSE Some([j \in 1..Len(blist.val[i].list) |-> blist.val[i].list[j].str])],
                         IsSome))

\* NaiveDateTime::from_timestamp(secs, 0): the date, or a panic on a number
\* of seconds out of range
NaiveDateTime_from_timestamp(secs) ==
    IF secs \in (-MAX_DATETIME_SECS)..MAX_DATETIME_SECS THEN Some(secs) ELSE Panic

\* the call of the `parser: impl FnOnce(Entry) -> Result<T>` handed to
\* utils::parse_required, named by its path
call_parser(parser, entry) ==
    CASE parser = "Info::parse" -> Info_parse(entry)

\* utils::parse_required with the parser handed in
parse_required(dictionary, key, parser) ==
    [res |-> IF as_bytes(key) \in DOMAIN dictionary
             THEN call_parser(parser, dictionary[as_bytes(key)])
             ELSE FieldErr("MissingField", key),
     dict |-> HashMap_remove(dictionary, as_bytes(key)).dict]

\* Metainfo::parse
Metainfo_parse(entry) ==
    IF Variant(entry) # "Dictionary" THEN FieldErr("InvalidFormat", "metainfo")
    ELSE CHOOSE out \in
      { IF ~IsOk(info.res) THEN info.res
        ELSE CHOOSE out_1 \in
          { IF ~IsOk(announce.res) THEN announce.res
            ELSE CHOOSE out_2 \in
              { CHOOSE out_3 \in
                  { IF IsSome(creation_date.res)
                       /\ NaiveDateTime_from_timestamp(creation_date.res.val) = Panic
                    THEN Panic
                    ELSE CHOOSE out_4 \in
                      { CHOOSE out_5 \in
                          { [tag |-> "Ok",
                             val |-> [info |-> info.res.val,
                                      announce |-> announce.res.val,
                                      announce_list |-> parse_announce_list(announce_list.res),
                                      creation_date |-> IF IsSome(creation_date.res)
                                                        THEN NaiveDateTime_from_timestamp(
                                                                 creation_date.res.val)
                                                        ELSE None,
                                      comment |-> comment.res,
                                      created_by |-> created_by.res,
                                      encoding |-> parse_optional_primitive(
                                                       created_by.dict, "encoding", "String").res]]
                            : created_by \in {parse_optional_primitive(comment.dict, "created by",
                                                                      "String")} } : TRUE
                        : comment \in {parse_optional_primitive(creation_date.dict, "comment",
                                                                "String")} } : TRUE
                    : creation_date \in {parse_optional_primitive(announce_list.dict,
                                                                  "creation date", "BInt")} } : TRUE
                : announce_list \in {parse_optional_primitive(announce.dict, "announce-list",
                                                              "BList")} } : TRUE
            : announce \in {parse_required_primitive(info.dict, "announce", "String")} } : TRUE
        : info \in {parse_required(entry.dict, "info", "Info::parse")} } : TRUE

\* ------------------------------------------------------------ input sets
\* a field of an input dictionary: <<>> for a key that is absent, <<e>> for a
\* key that holds the entry e
Absent == <<>>

Present(e) == <<e>>

\* the dictionary of a sequence of <<name, field>> pairs
MakeDict(fields) ==
    [k \in {as_bytes(fields[i][1]) : i \in {j \in 1..Len(fields) : fields[j][2] # Absent}} |->
        fields[CHOOSE i \in 1..Len(fields) : as_bytes(fields[i][1]) = k][2][1]]

\* a "pieces" string of one 20-byte hash block
Hash20 == [i \in 1..20 |-> i]

\* the entries of a "files" list: a file with an md5sum, a file whose path
\* holds an integer, a file without length, and an entry that is no dictionary
FileEntries ==
    { Dictionary(MakeDict(<< <<"path", Present(List(<< String(<<97>>) >>))>>,
                             <<"length", Present(Integer(3))>>,
                             <<"md5sum", Present(String(<<109>>))>> >>)),
      Dictionary(MakeDict(<< <<"path", Present(List(<< Integer(0) >>))>>,
                             <<"length", Present(Integer(3))>> >>)),
      Dictionary(MakeDict(<< <<"path", Present(List(<< String(<<97>>) >>))>> >>)),
      Integer(0) }

FileLists == UNION { [1..n -> FileEntries] : n \in 0..MaxFiles }

\* info entries: every required and optional key absent, of the right shape
\* or of a wrong shape; "pieces" of 20 bytes and of 1 byte; "name" that is
\* no UTF-8; and an entry that is no dictionary
InfoEntries ==
    { Dictionary(MakeDict(<< <<"piece length", pl>>, <<"pieces", ps>>, <<"name", nm>>,
                             <<"private", pr>>, <<"files", fl>>, <<"length", ln>>,
                             <<"md5sum", md>> >>)) :
        pl \in {Absent, Present(Integer(16)), Present(String(<<120>>))},
        ps \in {Absent, Present(String(Hash20)), Present(String(<<120>>)), Present(Integer(0))},
        nm \in {Absent, Present(String(<<110>>)), Present(String(<<255>>))},
        pr \in {Absent, Present(Integer(1)), Present(String(<<120>>))},
        fl \in {Absent, Present(Integer(0))} \cup {Present(List(q)) : q \in FileLists},
        ln \in {Absent, Present(Integer(7)), Present(String(<<120>>))},
        md \in {Absent, Present(String(<<109>>)), Present(Integer(0))} }
    \cup { Integer(0) }

\* a single-file and a multi-file info entry whose required keys are valid
SingleInfo ==
    Dictionary(MakeDict(<< <<"piece length", Present(Integer(16))>>,
                           <<"pieces", Present(String(Hash20))>>,
                           <<"name", Present(String(<<110>>))>>,
                           <<"length", Present(Integer(7))>> >>))

MultiInfo ==
    Dictionary(MakeDict(<< <<"piece length", Present(Integer(16))>>,
                           <<"pieces", Present(String(Hash20))>>,
                           <<"name", Present(String(<<110>>))>>,
                           <<"files", Present(List(<<>>))>> >>))

\* metainfo entries: "info" and "announce" absent, valid or of a wrong
\* shape, every optional key absent, of the right shape or of a wrong shape,
\* "creation date" at and above the largest date
MetainfoEntries ==
    { Dictionary(MakeDict(<< <<"info", info>>, <<"announce", an>>, <<"announce-list", al>>,
                             <<"creation date", cd>>, <<"comment", cm>>, <<"created by", cb>>,
                             <<"encoding", en>> >>)) :
        info \in {Absent, Present(SingleInfo), Present(MultiInfo), Present(Integer(0)),
                  Present(Dictionary(HashMap_new))},
        an \in {Absent, Present(String(<<117>>)), Present(Integer(0))},
        al \in {Absent, Present(Integer(0)),
                Present(List(<< List(<< String(<<117>>) >>), Integer(0),
                                List(<< Integer(0) >>) >>))},
        cd \in {Absent, Present(Integer(0)), Present(Integer(MAX_DATETIME_SECS)),
                Present(Integer(MAX_DATETIME_SECS + 1)), Present(String(<<120>>))},
        cm \in {Absent, Present(String(<<99>>)), Present(Integer(0))},
        cb \in {Absent, Present(String(<<99>>)), Present(List(<<>>))},
        en \in {Absent, Present(String(<<99>>)), Present(String(<<255>>))} }
    \cup { Integer(0) }

\* the shapes a looked-up key may hold
Shapes ==
    { Integer(7), String(<<110>>), String(<<255>>), List(<<>>), Dictionary(HashMap_new) }

\* the dictionaries of the field lookups: "length" and "name", each absent or
\* of any shape
LookupDicts ==
    { MakeDict(<< <<"length", a>>, <<"name", b>> >>) :
        a \in {Absent} \cup {Present(e) : e \in Shapes},
        b \in {Absent} \cup {Present(e) : e \in Shapes} }

\* the dictionaries of the lookups with a parser: "info" absent, valid, or
\* of a shape Info::parse refuses
InfoDicts ==
    { MakeDict(<< <<"info", a>>, <<"announce", Present(String(<<117>>))>> >>) :
        a \in {Absent, Present(SingleInfo), Present(MultiInfo), Present(Integer(0)),
               Present(String(<<120>>)), Present(Dictionary(HashMap_new))} }

Types == {"BInt", "BString", "BList", "BDictionary", "String"}

MRec(op, key, T, arg, r) ==
    [op |-> op, key |-> key, T |-> T, arg |-> arg, res |-> r.res, dict |-> r.dict]

\* ---------------------------------------------------------------- actions
MInit ==
    /\ crate = "build_torrent_core"
    /\ mode = "metainfo"
    /\ stream = <<>>
    /\ queue = <<>>
    /\ alive = TRUE
    /\ peer = [frames |-> 0, crafted |-> FALSE]
    /\ last = MRec("init", Nil, Nil, Nil, [res |-> Nil, dict |-> HashMap_new])

\* utils::parse_required_primitive::<T>(dictionary, key)
RequiredPrimitive(dictionary, key, T) ==
    /\ last.op = "init"
    /\ \E r \in {parse_required_primitive(dictionary, key, T)} :
           last' = MRec("parse_required_primitive", key, T, dictionary, r)
    /\ UNCHANGED <<crate, mode, stream, queue, alive, peer>>

\* utils::parse_required(dictionary, "info", Info::parse)
Required(dictionary) ==
    /\ last.op = "init"
    /\ \E r \in {parse_required(dictionary, "info", "Info::parse")} :
           last' = MRec("parse_required", "info", "Info", dictionary, r)
    /\ UNCHANGED <<crate, mode, stream, queue, alive, peer>>

\* utils::parse_optional_primitive::<T>(dictionary, key)
OptionalPrimitive(dictionary, key, T) ==
    /\ last.op = "init"
    /\ \E r \in {parse_optional_primitive(dictionary, key, T)} :
           last' = MRec("parse_optional_primitive", key, T, dictionary, r)
    /\ UNCHANGED <<crate, mode, stream, queue, alive, peer>>

\* Info::parse(entry)
InfoParse(entry) ==
    /\ last.op = "init"
    /\ \E r \in {Info_parse(entry)} :
           last' = MRec("info_parse", Nil, "Info", entry, [res |-> r, dict |-> HashMap_new])
    /\ UNCHANGED <<crate, mode, stream, queue, alive, peer>>

\* Metainfo::parse(entry)
MetainfoParse(entry) ==
    /\ last.op = "init"
    /\ \E r \in {Metainfo_parse(entry)} :
           last' = MRec("metainfo_parse", Nil, "Metainfo", entry, [res |-> r, dict |-> HashMap_new])
    /\ UNCHANGED <<crate, mode, stream, queue, alive, peer>>

MNext ==
    /\ mode = "metainfo" /\ last.op = "init"
    /\ \/ \E dictionary \in LookupDicts, key \in {"length", "name"}, T \in Types :
              RequiredPrimitive(dictionary, key, T)
       \/ \E dictionary \in InfoDicts : Required(dictionary)
       \/ \E dictionary \in LookupDicts, key \in {"length", "name"}, T \in Types :
              OptionalPrimitive(dictionary, key, T)
       \/ \E entry \in InfoEntries : InfoParse(entry)
       \/ \E entry \in MetainfoEntries : MetainfoParse(entry)

MetainfoSpec == MInit /\ [][MNext]_vars

\* ------------------------------------------------------------------ C22
\* an entry has the shape a lookup of type T converts
RightShape(T, e) ==
    CASE T = "BInt" -> Variant(e) = "Integer"
      [] T = "BString" -> Variant(e) = "String"
      [] T = "BList" -> Variant(e) = "List"
      [] T = "BDictionary" -> Variant(e) = "Dictionary"
      [] T = "String" -> Variant(e) = "String" /\ \A i \in 1..Len(e.str) : e.str[i] < 128

\* the dictionary after the call is the one before it without the key
Removed(before, after, k) ==
    /\ DOMAIN after = DOMAIN before \ {k}
    /\ \A x \in DOMAIN after : after[x] = before[x]

\* C22: a required-field lookup of key k removes k from the dictionary and
\* returns the converted value when k is present with the right shape; it
\* fails with MissingField(k) when k is absent and with InvalidFormat(k) when
\* k is present with the wrong shape.
C22_RequiredLookup ==
    /\ last.op = "parse_required_primitive" =>
         IF as_bytes(last.key) \notin DOMAIN last.arg
         THEN last.res = FieldErr("MissingField", last.key)
         ELSE IF RightShape(last.T, last.arg[as_bytes(last.key)])
         THEN /\ last.res = Ok(Inner(last.arg[as_bytes(last.key)]))
              /\ Removed(last.arg, last.dict, as_bytes(last.key))
         ELSE last.res = FieldErr("InvalidFormat", last.key)
    /\ last.op = "parse_required" =>
         IF as_bytes("info") \notin DOMAIN last.arg
         THEN last.res = FieldErr("MissingField", "info")
         ELSE IF Variant(last.arg[as_bytes("info")]) # "Dictionary"
         THEN last.res = FieldErr("InvalidFormat", "info")
         ELSE /\ Removed(last.arg, last.dict, as_bytes("info"))
              /\ last.arg[as_bytes("info")] \in {SingleInfo, MultiInfo} => IsOk(last.res)

\* "name" was looked up as a String in a dictionary that held "name" and
\* "length": the string came back, "name" is gone and "length" is still there
C22_Witness ==
    /\ last.op = "parse_required_primitive" /\ last.key = "name" /\ last.T = "String"
    /\ DOMAIN last.arg = {as_bytes("name"), as_bytes("length")}
    /\ last.res = Ok(<<110>>)
    /\ DOMAIN last.dict = {as_bytes("length")}

\* ------------------------------------------------------------------ C23
\* a dictionary holds the key with an entry of the shape of type T
Holds(d, key, T) == as_bytes(key) \in DOMAIN d /\ RightShape(T, d[as_bytes(key)])

\* an entry is a file dictionary whose required keys are valid
ValidFile(e) ==
    /\ Variant(e) = "Dictionary"
    /\ Holds(e.dict, "path", "BList")
    /\ \A i \in 1..Len(e.dict[as_bytes("path")].list) :
           RightShape("String", e.dict[as_bytes("path")].list[i])
    /\ Holds(e.dict, "length", "BInt")

\* the required keys of an info entry are valid: "piece length", "pieces",
\* "name", and "files" with valid files or else "length"
ValidInfo(e) ==
    /\ Variant(e) = "Dictionary"
    /\ Holds(e.dict, "piece length", "BInt")
    /\ Holds(e.dict, "pieces", "BString")
    /\ Holds(e.dict, "name", "String")
    /\ IF as_bytes("files") \in DOMAIN e.dict
       THEN /\ Holds(e.dict, "files", "BList")
            /\ \A i \in 1..Len(e.dict[as_bytes("files")].list) :
                   ValidFile(e.dict[as_bytes("files")].list[i])
       ELSE Holds(e.dict, "length", "BInt")

\* the required keys of a metainfo entry are valid: "info" and "announce"
ValidMetainfo(e) ==
    /\ Variant(e) = "Dictionary"
    /\ as_bytes("info") \in DOMAIN e.dict /\ ValidInfo(e.dict[as_bytes("info")])
    /\ Holds(e.dict, "announce", "String")

\* C23: an optional-field lookup never fails, it returns 'absent' when the
\* key is missing and when it is present with the wrong shape; so Info and
\* Metainfo parsing succeed whatever the optional keys hold, as long as the
\* required keys are valid.
C23_OptionalNeverFails ==
    /\ last.op = "parse_optional_primitive" =>
         last.res = IF Holds(last.arg, last.key, last.T)
                    THEN Some(Inner(last.arg[as_bytes(last.key)]))
                    ELSE None
    /\ ( last.op = "info_parse" /\ ValidInfo(last.arg) ) => IsOk(last.res)
    /\ ( last.op = "metainfo_parse" /\ ValidMetainfo(last.arg) ) => IsOk(last.res)

\* ------------------------------------------------------------------ C24
\* "piece length", "pieces" and "name" of an info entry are valid
LeadingKeysValid(e) ==
    /\ Variant(e) = "Dictionary"
    /\ Holds(e.dict, "piece length", "BInt")
    /\ Holds(e.dict, "pieces", "BString")
    /\ Holds(e.dict, "name", "String")

\* the file a valid file dictionary stands for
FileOf(e) ==
    [length |-> e.dict[as_bytes("length")].int,
     md5sum |-> IF Holds(e.dict, "md5sum", "BString")
                THEN Some(e.dict[as_bytes("md5sum")].str) ELSE None,
     path |-> [i \in 1..Len(e.dict[as_bytes("path")].list) |->
                  e.dict[as_bytes("path")].list[i].str]]

C25_PiecesLength ==
    last.op = "info_parse" =>
        /\ IsOk(last.res) => Len(last.res.val.pieces) % 20 = 0
        /\ ( /\ Variant(last.arg) = "Dictionary"
             /\ Holds(last.arg.dict, "pieces", "BString")
             /\ Len(last.arg.dict[as_bytes("pieces")].str) % 20 # 0 ) => ~IsOk(last.res)

\* ------------------------------------------------------------------ C29
\* lists cut off in front of their closing 'e': 'l' and the bytes of up to
\* two complete values in which no dictionary stands
OpenLists ==
    { b \in { <<LIST_PREFIX>> \o BSlice_items(q) : q \in UNION { SeqsOf(k) : k \in 0..2 } } :
        \A i \in 1..Len(b) : b[i] # DICTIONARY_PREFIX }

\* C29: decode never succeeds on an input that ends before the terminator of
\* the value it reads: an integer whose input ends before the closing 'e'
\* ("i42") fails, as a list whose input ends before its 'e' fails with
\* UnexpectedEOF.
C29_TruncatedFails ==
    last.op = "decode_encode" =>
        /\ ( /\ last.inp # <<>> /\ last.inp[1] = INT_PREFIX
             /\ \A i \in 1..Len(last.inp) : last.inp[i] # END_SUFFIX ) => ~IsOk(last.res)
        /\ last.inp \in OpenLists => last.res = BErr("UnexpectedEOF")

====
